---------------------------- MODULE Spec2Model ----------------------------
(***************************************************************************)
(* A model of comport: the Tracking combinator (src/src/lib.rs) and the    *)
(* device-notification dispatcher with its shared queue (src/src/wm.rs).   *)
(*                                                                         *)
(* SpecTracking drives Tracking::poll_next and Unplugged::poll over an     *)
(* arbitrary upstream.  SpecWindow interleaves the consumer of a           *)
(* WindowEvents (poll_next, close, drop) with its dispatcher thread.       *)
(* SpecEvent drives an EventListener over one Event (src/src/event.rs is   *)
(* not part of the sources: modelled from its specification and its test). *)
(***************************************************************************)
EXTENDS Integers, Sequences, FiniteSets, TLC

(* ------------------------------ bounds -------------------------------- *)

\* Number of items the upstream of a Tracking combinator produces.
MaxUpstream == 3

\* Length of the allow-list handed to track().
MaxIds == 1

\* Number of device broadcasts the OS sends to a listener's window.
MaxOsEvents == 2

\* Number of rescan() requests made to a listener.
MaxRescans == 1

\* Number of close() calls made on a WindowEvents, the one of its drop included.
MaxCloses == 2

\* Number of set() and reset() calls made on an Event.
MaxEventOps == 3

\* Number of start() and restart() calls made on an EventListener.
MaxWaits == 3

\* Number of polls made of one wait future.
MaxPolls == 2

\* channel::bounded(handle, capacity): the capacity of both queues.
Capacity == 2

\* Number of push_ok / push_err calls made by the thread side.
MaxPushes == 3

\* Length of the longest BytesMut pushed or written.
MaxChunk == 2

\* Length of the longest buffer handed to poll_read.
MaxBuf == 2

\* Number of poll_next / poll_read calls made by the task side.
MaxReads == 4

\* Number of ThreadQueue handles ever made, clones included.
MaxHandles == 2

\* Number of TaskQueue::push / Writer::poll_write calls made by the task.
MaxWrites == 3

\* Length of the longest buffer given to TaskQueue::push or poll_write.
MaxOut == 1

\* Number of close markers sent: Writer::poll_close calls and the drop of
\* the TaskQueue.
MaxMarkers == 2

(* ----------------------------- data model ----------------------------- *)

\* PortId values (OsString port names).
Ports == {"COM1", "COM2"}

NoPort == ""

\* A String is the sequence of its characters.  PortMeta values a device can
\* report: the pair of the test allow-list, the same pair as a registry that
\* spells it in capitals would give it, and another device.
Metas ==
    { [vendor |-> <<"2", "f", "e", "3">>, product |-> <<"0", "1", "0", "0">>],
      [vendor |-> <<"2", "F", "E", "3">>, product |-> <<"0", "1", "0", "0">>],
      [vendor |-> <<"1", "2", "3", "4">>, product |-> <<"5", "6", "7", "8">>] }

NoMeta == [vendor |-> <<>>, product |-> <<>>]

\* The (vendor, product) pairs a caller writes in the list given to track():
\* the pair of examples/track.rs, other spellings of it, and another device.
RawIds ==
    { [vendor |-> <<"2", "F", "E", "3">>, product |-> <<"0", "1", "0", "0">>],
      [vendor |-> <<"2", "f", "E", "3">>, product |-> <<"0", "1", "0", "0">>],
      [vendor |-> <<"2", "f", "e", "3">>, product |-> <<"0", "1", "0", "0">>],
      [vendor |-> <<"1", "2", "3", "4">>, product |-> <<"5", "6", "7", "8">>] }

\* Vec<(V, P)> values track() can be given.
AllowLists ==
    UNION { [1..n -> RawIds] : n \in 0..MaxIds }

\* char::to_lowercase on the characters of a hexadecimal id.
LowerChar(c) ==
    CASE c = "A" -> "a"
      [] c = "B" -> "b"
      [] c = "C" -> "c"
      [] c = "D" -> "d"
      [] c = "E" -> "e"
      [] c = "F" -> "f"
      [] OTHER -> c

\* str::to_lowercase.
ToLowercase(str) ==
    [i \in DOMAIN str |-> LowerChar(str[i])]

PortMetaFromVerbatim(value) ==
    [vendor |-> value.vendor, product |-> value.product]

\* impl From<(V, P)> for PortMeta: both fields are lower-cased.
PortMetaFrom(value) ==
    [vendor |-> ToLowercase(value.vendor),
     product |-> ToLowercase(value.product)]

\* ids.into_iter().map(PortMeta::from).collect().
Track(list) ==
    [i \in DOMAIN list |-> PortMetaFrom(list[i])]

\* PlugEvent::Arrival(port, meta) as a stream item.  ok is the outcome of the
\* OS call made while the item is processed (event::oneshot / Sender::set).
Arrival(port, meta, ok) ==
    [kind |-> "Arrival", port |-> port, meta |-> meta, ok |-> ok]

\* PlugEvent::RemoveComplete(port) as a stream item.
RemoveComplete(port, ok) ==
    [kind |-> "RemoveComplete", port |-> port, meta |-> NoMeta, ok |-> ok]

\* Some(Err(e)): a RegistryError item of the upstream.
ErrItem ==
    [kind |-> "Err", port |-> NoPort, meta |-> NoMeta, ok |-> TRUE]

\* Ready(None): the end of the upstream.
EndItem ==
    [kind |-> "End", port |-> NoPort, meta |-> NoMeta, ok |-> TRUE]

\* What inner.poll_next returns when the upstream has nothing ready.
PendingItem ==
    [kind |-> "Pending", port |-> NoPort, meta |-> NoMeta, ok |-> TRUE]

UpstreamItems ==
    { Arrival(p, m, ok) : p \in Ports, m \in Metas, ok \in BOOLEAN }
        \cup { RemoveComplete(p, ok) : p \in Ports, ok \in BOOLEAN }
        \cup { ErrItem, EndItem }

VARIABLES
    \* --- Tracking<St> (lib.rs) ---
    tracking,   \* the variant: "Streaming" or "Complete"
    given,      \* ghost: the Vec<(V, P)> track() was called with
    ids,        \* Streaming.ids: the allow-list
    cache,      \* Streaming.cache: a set of [port, sender] entries
    inner,      \* Streaming.inner: the items the upstream has ready, in order
    fed,        \* how many items the upstream has produced so far
    tracked,    \* every oneshot channel made by TrackedPort::track, in order
    lastPoll,   \* the last call of Tracking::poll_next, or of Unplugged::poll
                \* that did not return Pending
    \* --- SharedQueue and WindowEvents (wm.rs) ---
    queue,      \* SharedQueue.queue, oldest item first
    waker,      \* SharedQueue.waker: 0 (None) or the stored waker
    joinHandle, \* WindowEvents.join_handle: "Some" or "None"
    cpc,        \* where the consumer is inside poll_next / close / drop
    cx,         \* the waker of the poll_next call in progress
    parked,     \* the waker the consumer last returned Pending with, or 0
    woken,      \* the wakers invoked since the consumer's last poll began
    closes,     \* how many close() calls were begun
    dropping,   \* the close() in progress is the one made by drop
    closeRet,   \* what the last close() that returned, returned
    closeLog,   \* ghost: what every close() returned, in order, and to whom
    yielded,    \* ghost: every item poll_next returned Ready with, in order
    enqueued,   \* ghost: every item ever pushed to the queue, in order
    snapshot,   \* ghost: the Directory snapshot spawn() seeded the queue with
    \* --- the dispatcher thread and its window (wm.rs) ---
    thread,     \* where the dispatcher thread is
    tresult,    \* what the thread function returned: "Ok", an error, "Panic"
    joined,     \* the thread was joined
    window,     \* the hidden window: "none", "alive" or "destroyed"
    posted,     \* messages posted to the window (WM_CLOSE, WM_USER)
    sent,       \* WM_DEVICECHANGE broadcasts sent to the window
    todo,       \* items the running window procedure has yet to enqueue
    after,      \* where the thread goes once todo is empty
    scanLog,    \* ghost: every Directory scan the listener made, in order
    \* --- the OS ---
    dir,        \* the Directory: the connected ports and their PortMeta
    osEvents,   \* how many broadcasts the OS has sent
    broadcasts, \* ghost: every broadcast the OS has sent, in order
    rescans,    \* how many rescan() requests were made
    rescanLog,  \* ghost: what every rescan() returned, and the window it met
    \* --- the process: the window class and the dispatchers started ---
    windowClass, \* the class "DeviceNotifier", the RegisterClassExW calls
                 \* made for it and where each started dispatcher is
    \* --- Event and EventListener (event.rs) ---
    event,      \* the Event: its reset policy, its state, the calls made on it
    listener,   \* the EventListener's wait: "Idle", "Waiting" or "Completed"
    futs,       \* the futures start/restart have returned, in order
    startLog,   \* ghost: what every start/restart returned, in order
    \* --- channel.rs, the queue the task consumes ---
    taskQ,      \* State.task: the ArrayQueue read by TaskStream, oldest first
    readWaker,  \* State.read_waker: 0 (None) or the stored waker
    readWoken,  \* the stored read waker was woken since the task's last poll
    handles,    \* how many ThreadQueue handles (clones) are alive
    front,      \* what the task reads with: "stream" or "reader"
    reader,     \* the Reader: its variant and its current item
    pushes,     \* how many push_ok / push_err calls were made
    nextByte,   \* ghost: bytes are numbered in the order they are pushed
    taskPushed, \* ghost: every item the task queue accepted, in order
    readLog,    \* ghost: what every poll_next / poll_read returned, in order
    inCall,     \* where the task is inside poll_next and the thread inside
                \* push_ok / push_err, when their steps are taken one by one
    \* --- channel.rs, the queue the thread consumes ---
    threadQ,    \* State.thread: the ArrayQueue read by ThreadQueue
    writeWaker, \* State.write_waker: 0 (None) or the stored waker
    writeWoken, \* the stored write waker was woken since the last write poll
    taskAlive,  \* the TaskQueue has not been dropped
    writes,     \* how many push / poll_write / poll_close calls were made
    writeRet,   \* what the last push / poll_write / poll_close returned
    nextOut,    \* ghost: written bytes are numbered in write order
    threadPushed, \* ghost: every item the thread queue accepted, in order
    threadTaken,  \* ghost: every item pop / collect dequeued, in order
    popLog,     \* ghost: what every pop / collect returned, in order
    flushLog,   \* ghost: what every poll_flush returned, in order
    collecting  \* the collect() call in progress: its buffer so far

trackingVars == <<tracking, given, ids, cache, inner, fed, tracked, lastPoll>>

windowVars ==
    <<queue, waker, joinHandle, cpc, cx, parked, woken, closes, dropping,
      closeRet, closeLog,
      yielded, enqueued, snapshot, thread, tresult, joined, window, posted,
      sent, todo, after, scanLog, dir, osEvents, broadcasts, rescans,
      rescanLog>>

eventVars == <<event, listener, futs, startLog>>

classVars == <<windowClass>>

taskSideVars ==
    <<taskQ, readWaker, readWoken, handles, front, reader, pushes, nextByte,
      taskPushed, readLog, inCall>>

threadSideVars ==
    <<threadQ, writeWaker, writeWoken, taskAlive, writes, writeRet, nextOut,
      threadPushed, threadTaken, popLog, flushLog, collecting>>

channelVars == <<taskSideVars, threadSideVars>>

vars == <<trackingVars, windowVars, eventVars, channelVars, classVars>>

\* Neither side of the channel is inside a call.
NotInCall == [task |-> "idle", thread |-> "idle"]

\* No dispatcher was started in the process and the class is not registered.
NoClass ==
    windowClass = [registered |-> FALSE, calls |-> <<>>, threads |-> <<>>]

\* Option::None as the value of Reader.current.
NoItem == [kind |-> "Empty", bytes |-> <<>>, k |-> 0]

\* No collect() call is in progress.
NotCollecting ==
    [active |-> FALSE, ret |-> <<>>, from |-> 0, q0 |-> <<>>, sent |-> 0]

\* No task reads the task queue and nothing was pushed to it.
NoTaskSide ==
    /\ taskQ = <<>> /\ readWaker = 0 /\ readWoken = FALSE /\ handles = 0
    /\ front = "none" /\ reader = [state |-> "Complete", current |-> NoItem]
    /\ pushes = 0 /\ nextByte = 0 /\ taskPushed = <<>> /\ readLog = <<>>
    /\ inCall = NotInCall

\* No thread reads the thread queue and nothing was written to it.
NoThreadSide ==
    /\ threadQ = <<>> /\ writeWaker = 0 /\ writeWoken = FALSE
    /\ taskAlive = FALSE /\ writes = 0 /\ writeRet = "none" /\ nextOut = 0
    /\ threadPushed = <<>> /\ threadTaken = <<>> /\ popLog = <<>>
    /\ flushLog = <<>> /\ collecting = NotCollecting

\* No channel is in use.
NoChannel == NoTaskSide /\ NoThreadSide

\* No Event is waited on: no listener, no future.
NoEvent ==
    /\ event = [reset |-> "Manual", state |-> "Unset", ops |-> 0, sets |-> 0]
    /\ listener = "Idle"
    /\ futs = <<>>
    /\ startLog = <<>>

(* ----------------------- event::oneshot channels ---------------------- *)

\* A channel made by event::oneshot() inside TrackedPort::track: the
\* TrackedPort fields, the auto-reset signal, and where the Sender went.
\*   signal:    "Unset" -> "Set" (Sender::set) -> "Signaled" (the helper
\*              thread's blocking wait returned)
\*   sender:    "cached" | "used" (set() was called) | "dropped"
\*   unplugged: the Unplugged variant, "Waiting" | "Complete"
\*   resolved:  how many polls of unplugged returned Ready
\*   removed:   a RemoveComplete(port) was processed after this channel was made
\*   rearrived: a matching Arrival(port) was processed after this channel
\*              was made
NewChannel(port, meta) ==
    [port |-> port, ids |-> meta, signal |-> "Unset", sender |-> "cached",
     unplugged |-> "Waiting", resolved |-> 0, removed |-> FALSE,
     rearrived |-> FALSE]

\* Sender::set on channel c.
SenderSet(chans, c, ok) ==
    [chans EXCEPT ![c].sender = "used",
                  ![c].signal = IF ok THEN "Set" ELSE @]

\* Dropping the Sender of channel c without calling set().
SenderDrop(chans, c) ==
    [chans EXCEPT ![c].sender = "dropped"]

ReceiverReadyOnceSet(chans, c) ==
    chans[c].signal \in {"Set", "Signaled"}

\* Receiver::poll on channel c: Ready once the wait on the signal returned.
ReceiverReady(chans, c) ==
    chans[c].signal = "Signaled"

(* --------------------------- Tracking<St> ----------------------------- *)

\* ids.iter().find(|test| **test == id): the first entry equal to the
\* Arrival's metadata, NoMeta when there is none.
Find(list, id) ==
    IF \E i \in DOMAIN list : list[i] = id
    THEN list[CHOOSE i \in DOMAIN list :
                  /\ list[i] = id
                  /\ \A j \in DOMAIN list : list[j] = id => i <= j]
    ELSE NoMeta

\* The Senders cached under a port.
CacheGet(c, port) ==
    { e.sender : e \in { x \in c : x.port = port } }

\* The ports that have a cache entry.
CachePorts(c) ==
    { e.port : e \in c }

CacheInsertKeepingOld(c, port, sender) ==
    c \cup { [port |-> port, sender |-> sender] }

\* HashMap::insert: the entry of the key is replaced.
CacheInsert(c, port, sender) ==
    { e \in c : e.port # port } \cup { [port |-> port, sender |-> sender] }

CacheClear(c, port) ==
    {}

\* HashMap::remove: the map without the key.
CacheRemove(c, port) ==
    { e \in c : e.port # port }

\* Dropping every Sender of a set.
RECURSIVE DropAll(_, _)
DropAll(chans, senders) ==
    IF senders = {} THEN chans
    ELSE LET c == CHOOSE x \in senders : TRUE
         IN  DropAll(SenderDrop(chans, c), senders \ {c})

\* Ghost: a RemoveComplete(port) was processed; every channel made for that
\* port so far has now seen a removal after its Arrival.
MarkRemoved(chans, port) ==
    [c \in DOMAIN chans |->
        IF chans[c].port = port THEN [chans[c] EXCEPT !.removed = TRUE]
        ELSE chans[c]]

\* Ghost: a matching Arrival(port) was processed; every channel made for that
\* port so far has now seen a later matching Arrival.
MarkRearrived(chans, port) ==
    [c \in DOMAIN chans |->
        IF chans[c].port = port THEN [chans[c] EXCEPT !.rearrived = TRUE]
        ELSE chans[c]]

NoEmit == [kind |-> "Nothing", port |-> NoPort, ids |-> NoMeta, chan |-> 0]

EmitErr == [kind |-> "Err", port |-> NoPort, ids |-> NoMeta, chan |-> 0]

EmitTracked(port, meta, chan) ==
    [kind |-> "TrackedPort", port |-> port, ids |-> meta, chan |-> chan]

\* The result of handling one upstream item: the fields of the combinator
\* after it, the item emitted (NoEmit: the loop goes round again).
Handled(variant, c, chans, emit, brk) ==
    [tracking |-> variant, cache |-> c, tracked |-> chans, emit |-> emit,
     brk |-> brk]

OnArrivalKeepsFirst(list, c, chans, item) ==
    LET id == Find(list, item.meta)
        chan == Len(chans) + 1
    IN  IF id = NoMeta
        THEN Handled("Streaming", c, chans, NoEmit, FALSE)
        ELSE IF ~item.ok
        THEN Handled("Streaming", c, chans, EmitErr, TRUE)
        ELSE Handled("Streaming",
                     IF item.port \in CachePorts(c) THEN c
                     ELSE CacheInsert(c, item.port, chan),
                     Append(chans, NewChannel(item.port, id)),
                     EmitTracked(item.port, id, chan), TRUE)

OnArrivalNoFilter(list, c, chans, item) ==
    LET chan == Len(chans) + 1
    IN  Handled("Streaming", CacheInsert(c, item.port, chan),
                Append(DropAll(chans, CacheGet(c, item.port)),
                       NewChannel(item.port, item.meta)),
                EmitTracked(item.port, item.meta, chan), TRUE)

OnArrivalYields(list, c, chans, item) ==
    LET id == Find(list, item.meta)
        chan == Len(chans) + 1
    IN  IF id = NoMeta
        THEN Handled("Streaming", c, chans, NoEmit, TRUE)
        ELSE IF ~item.ok
        THEN Handled("Streaming", c, MarkRearrived(chans, item.port), EmitErr,
                     TRUE)
        ELSE Handled("Streaming", CacheInsert(c, item.port, chan),
                     Append(DropAll(MarkRearrived(chans, item.port),
                                    CacheGet(c, item.port)),
                            NewChannel(item.port, id)),
                     EmitTracked(item.port, id, chan), TRUE)

\* Poll::Ready(Some(Ok(PlugEvent::Arrival(port, id)))).
OnArrival(list, c, chans, item) ==
    LET id == Find(list, item.meta)
        chan == Len(chans) + 1
    IN  IF id = NoMeta
        THEN \* None => debug!("ignoring com device")
             Handled("Streaming", c, chans, NoEmit, FALSE)
        ELSE IF ~item.ok
        THEN \* TrackedPort::track: Err(e) => break Ready(Some(Err(e.into())))
             Handled("Streaming", c, MarkRearrived(chans, item.port), EmitErr,
                     TRUE)
        ELSE \* cache.insert(port.clone(), sender); the old Sender is dropped
             Handled("Streaming", CacheInsert(c, item.port, chan),
                     Append(DropAll(MarkRearrived(chans, item.port),
                                    CacheGet(c, item.port)),
                            NewChannel(item.port, id)),
                     EmitTracked(item.port, id, chan), TRUE)

OnRemoveCompleteFatal(c, chans, item) ==
    LET found == CacheGet(c, item.port)
        marked == MarkRemoved(chans, item.port)
    IN  IF found = {}
        THEN Handled("Streaming", c, marked, EmitErr, TRUE)
        ELSE LET sender == CHOOSE x \in found : TRUE
             IN  Handled("Streaming", CacheRemove(c, item.port),
                         SenderSet(marked, sender, item.ok),
                         IF item.ok THEN NoEmit ELSE EmitErr, ~item.ok)

OnRemoveCompleteKeepsEntry(c, chans, item) ==
    LET found == CacheGet(c, item.port)
        marked == MarkRemoved(chans, item.port)
    IN  IF found = {}
        THEN Handled("Streaming", c, marked, NoEmit, FALSE)
        ELSE LET sender == CHOOSE x \in found : TRUE
             IN  Handled("Streaming",
                         IF item.ok THEN CacheRemove(c, item.port) ELSE c,
                         SenderSet(marked, sender, item.ok),
                         IF item.ok THEN NoEmit ELSE EmitErr, ~item.ok)

OnRemoveCompleteSetsEvery(c, chans, item) ==
    LET found == CacheGet(c, item.port)
        marked == MarkRemoved(chans, item.port)
    IN  IF found = {}
        THEN Handled("Streaming", c, marked, NoEmit, FALSE)
        ELSE Handled("Streaming", CacheRemove(c, item.port),
                     [x \in DOMAIN marked |->
                         IF marked[x].port = item.port
                         THEN SenderSet(marked, x, item.ok)[x]
                         ELSE marked[x]],
                     IF item.ok THEN NoEmit ELSE EmitErr, ~item.ok)

\* Poll::Ready(Some(Ok(PlugEvent::RemoveComplete(port)))).
OnRemoveComplete(c, chans, item) ==
    LET found == CacheGet(c, item.port)
        marked == MarkRemoved(chans, item.port)
    IN  IF found = {}
        THEN \* None => warn!("untracked port")
             Handled("Streaming", c, marked, NoEmit, FALSE)
        ELSE LET sender == CHOOSE x \in found : TRUE
             IN  \* Some(ids) => match ids.set()
                 Handled("Streaming", CacheRemove(c, item.port),
                         SenderSet(marked, sender, item.ok),
                         IF item.ok THEN NoEmit ELSE EmitErr, ~item.ok)

OnErrCompletes(c, chans) ==
    Handled("Complete", {}, DropAll(chans, { e.sender : e \in c }), EmitErr,
            TRUE)

\* Poll::Ready(Some(Err(e))) => break Poll::Ready(Some(Err(e.into()))).
OnErr(c, chans) ==
    Handled("Streaming", c, chans, EmitErr, TRUE)

OnEndKeepsStreaming(c, chans) ==
    Handled("Streaming", c, chans, [NoEmit EXCEPT !.kind = "End"], TRUE)

\* Poll::Ready(None): project_replace(Self::Complete) drops the upstream and
\* the cache with every Sender in it.
OnEnd(c, chans) ==
    Handled("Complete", {}, DropAll(chans, { e.sender : e \in c }),
            [NoEmit EXCEPT !.kind = "End"], TRUE)

\* Poll::Pending => break Poll::Pending.
OnPending(c, chans) ==
    Handled("Streaming", c, chans, NoEmit, TRUE)

\* One turn of the loop of poll_next on the item the upstream poll returned.
Handle(list, c, chans, item) ==
    CASE item.kind = "Arrival"        -> OnArrival(list, c, chans, item)
      [] item.kind = "RemoveComplete" -> OnRemoveComplete(c, chans, item)
      [] item.kind = "Err"            -> OnErr(c, chans)
      [] item.kind = "End"            -> OnEnd(c, chans)
      [] OTHER                        -> OnPending(c, chans)

\* inner.poll_next(cx): the next ready item of the upstream, or Pending.
InnerPoll(up) ==
    IF up = <<>> THEN PendingItem ELSE Head(up)

InnerRest(up) ==
    IF up = <<>> THEN up ELSE Tail(up)

\* The record of one turn of the loop (ghost): the item, the cache before
\* and after, what was emitted, the variant after, the channels as they were
\* before the turn and the Senders set() was called on in the turn.
StepOf(item, before, chans, h) ==
    [item |-> item, before |-> before, after |-> h.cache, emit |-> h.emit,
     tracking |-> h.tracking, chans |-> chans,
     set |-> { c \in DOMAIN chans : /\ chans[c].sender # "used"
                                    /\ h.tracked[c].sender = "used" }]

\* Tracking::poll_next in the Streaming variant: loop until an item is
\* emitted, the upstream ends or the upstream is Pending.
RECURSIVE PollLoop(_, _, _, _, _)
PollLoop(list, c, chans, up, steps) ==
    LET item == InnerPoll(up)
        h == Handle(list, c, chans, item)
        done == Append(steps, StepOf(item, c, chans, h))
    IN  IF h.brk
        THEN [tracking |-> h.tracking, cache |-> h.cache, tracked |-> h.tracked,
              inner |-> InnerRest(up), emit |-> h.emit, steps |-> done,
              ret |-> IF item.kind = "Pending" THEN "Pending" ELSE "Ready"]
        ELSE PollLoop(list, h.cache, h.tracked, InnerRest(up), done)

NoCall == [op |-> "none", ret |-> "none", steps |-> <<>>, chan |-> 0]

\* The upstream produces its next item; after its end it produces nothing.
Feed ==
    /\ fed < MaxUpstream
    /\ tracking = "Streaming"
    /\ ~(inner # <<>> /\ inner[Len(inner)].kind = "End")
    /\ \E item \in UpstreamItems :
          /\ inner' = Append(inner, item)
          /\ fed' = fed + 1
    /\ UNCHANGED <<tracking, given, ids, cache, tracked, lastPoll>>
    /\ UNCHANGED <<windowVars, eventVars, channelVars, classVars>>

\* Tracking::poll_next, Streaming variant.
TrackingPollNext ==
    /\ tracking = "Streaming"
    /\ LET r == PollLoop(ids, cache, tracked, inner, <<>>)
       IN  /\ tracking' = r.tracking
           /\ cache' = r.cache
           /\ tracked' = r.tracked
           /\ inner' = r.inner
           /\ lastPoll' = [op |-> "poll_next", ret |-> r.ret, steps |-> r.steps,
                           chan |-> r.emit.chan]
    /\ UNCHANGED <<given, ids, fed>>
    /\ UNCHANGED <<windowVars, eventVars, channelVars, classVars>>

\* Tracking::poll_next, Complete variant: panic!("Watch must not be polled
\* after stream has finished").
TrackingPollAfterComplete ==
    /\ tracking = "Complete"
    /\ lastPoll' = [op |-> "poll_next", ret |-> "Panic", steps |-> <<>>, chan |-> 0]
    /\ UNCHANGED <<tracking, given, ids, cache, inner, fed, tracked>>
    /\ UNCHANGED <<windowVars, eventVars, channelVars, classVars>>

\* The helper thread's blocking wait on a set signal returns.
HelperWait ==
    /\ \E c \in DOMAIN tracked :
          /\ tracked[c].signal = "Set"
          /\ tracked' = [tracked EXCEPT ![c].signal = "Signaled"]
    /\ UNCHANGED <<tracking, given, ids, cache, inner, fed, lastPoll>>
    /\ UNCHANGED <<windowVars, eventVars, channelVars, classVars>>

UnpluggedPollEager(chans, c) ==
    [tracked |-> [chans EXCEPT ![c].unplugged = "Complete",
                               ![c].resolved = @ + 1],
     ret |-> "Ready"]

\* Unplugged::poll of the TrackedPort of channel c.
UnpluggedPoll(chans, c) ==
    IF chans[c].unplugged = "Waiting"
    THEN IF ReceiverReady(chans, c)
         THEN \* self.project_replace(Unplugged::Complete); Poll::Ready(result)
              [tracked |-> [chans EXCEPT ![c].unplugged = "Complete",
                                         ![c].resolved = @ + 1],
               ret |-> "Ready"]
         ELSE \* ready!(inner.poll(cx))
              [tracked |-> chans, ret |-> "Pending"]
    ELSE \* panic!("Unplugged cannot be polled after complete")
         [tracked |-> chans, ret |-> "Panic"]

\* The owner of a TrackedPort polls its unplugged future.
PollUnplugged ==
    /\ \E c \in DOMAIN tracked :
          LET r == UnpluggedPoll(tracked, c)
          IN  /\ tracked' = r.tracked
              /\ lastPoll' = IF r.ret = "Pending" THEN lastPoll
                             ELSE [op |-> "poll", ret |-> r.ret,
                                   steps |-> <<>>, chan |-> c]
    /\ UNCHANGED <<tracking, given, ids, cache, inner, fed>>
    /\ UNCHANGED <<windowVars, eventVars, channelVars, classVars>>

\* No listener was started: the fields of a WindowEvents at rest.
NoListener ==
    /\ queue = <<>> /\ waker = 0 /\ joinHandle = "None" /\ cpc = "dropped"
    /\ cx = 0 /\ parked = 0 /\ woken = {} /\ closes = 0 /\ closeRet = "none"
    /\ closeLog = <<>> /\ dropping = FALSE
    /\ yielded = <<>> /\ enqueued = <<>> /\ snapshot = {}
    /\ thread = "exited" /\ tresult = "Ok" /\ joined = TRUE
    /\ window = "none" /\ posted = <<>> /\ sent = <<>> /\ todo = <<>>
    /\ after = "exited" /\ dir = {} /\ osEvents = 0 /\ rescans = 0
    /\ broadcasts = <<>> /\ rescanLog = <<>> /\ scanLog = <<>>

\* DeviceStreamExt::track: Streaming { inner, ids, cache: HashMap::new() }.
InitTracking ==
    /\ NoListener
    /\ NoEvent
    /\ NoChannel
    /\ NoClass
    /\ tracking = "Streaming"
    /\ given \in AllowLists
    /\ ids = Track(given)
    /\ cache = {}
    /\ inner = <<>>
    /\ fed = 0
    /\ tracked = <<>>
    /\ lastPoll = NoCall

NextTracking ==
    \/ Feed
    \/ TrackingPollNext
    \/ TrackingPollAfterComplete
    \/ HelperWait
    \/ PollUnplugged

SpecTracking == InitTracking /\ [][NextTracking]_vars

(* ------------------ SharedQueue and the dispatcher -------------------- *)

\* The wakers a consumer task may poll with.
Wakers == {1}

\* An entry of SharedQueue.queue: Some(Ok(Arrival)), Some(Ok(RemoveComplete)),
\* Some(Err(e)) or the None that ends the stream.  Ghost fields: origin says
\* who enqueued it ("seed": spawn, "live": a broadcast, "rescan", "destroy"),
\* n is the number of the OS broadcast it translates (0: none).
QArrival(port, meta, origin, n) ==
    [kind |-> "Arrival", port |-> port, meta |-> meta, origin |-> origin, n |-> n]

QRemoveComplete(port, n) ==
    [kind |-> "RemoveComplete", port |-> port, meta |-> NoMeta,
     origin |-> "live", n |-> n]

QErr(n) ==
    [kind |-> "Err", port |-> NoPort, meta |-> NoMeta, origin |-> "live", n |-> n]

Sentinel ==
    [kind |-> "Sentinel", port |-> NoPort, meta |-> NoMeta,
     origin |-> "destroy", n |-> 0]

\* The device plugged into each port: its vendor/product ids in the registry.
DeviceOf(port) ==
    IF port = "COM1"
    THEN [vendor |-> <<"2", "f", "e", "3">>, product |-> <<"0", "1", "0", "0">>]
    ELSE [vendor |-> <<"1", "2", "3", "4">>, product |-> <<"5", "6", "7", "8">>]

\* The Directory values: the connected ports, each with its PortMeta.
Directories ==
    { { [port |-> p, meta |-> DeviceOf(p)] : p \in ps } : ps \in SUBSET Ports }

DirPorts(d) == { e.port : e \in d }

\* The orders a HashMap of these entries can be iterated in.
Orders(entries) ==
    { f \in [1..Cardinality(entries) -> entries] :
        \A i, j \in DOMAIN f : f[i] = f[j] => i = j }

\* map.into_iter().map(|(port, meta)| PlugEvent::Arrival(port, meta)).
ArrivalsOf(order, origin) ==
    [i \in DOMAIN order |-> QArrival(order[i].port, order[i].meta, origin, 0)]

WithEventsLosingOne(events) ==
    IF events = <<>> THEN events ELSE Tail(events)

\* SharedQueue::with_events: every event is pushed, in order.
WithEvents(events) ==
    [i \in DOMAIN events |-> events[i]]

PushFront(q, item) ==
    <<item>> \o q

\* SegQueue::push.
Push(q, item) ==
    Append(q, item)

\* SharedQueue::try_wake: the stored waker, if any, is woken.
TryWake(stored, w) ==
    IF stored # 0 THEN w \cup {stored} ELSE w

\* The waker SharedQueue::poll_next leaves stored when the queue is empty.
StoreWaker(old, new) ==
    IF old = 0 THEN new
    ELSE IF old = new      \* old_waker.will_wake(new_waker)
         THEN old
         ELSE new

\* hkey::scan_for(&port) then PlugEvent::Arrival, inside parse_event.
ParseArrival(d, scanOk, port, n) ==
    IF scanOk /\ port \in DirPorts(d)
    THEN QArrival(port, (CHOOSE e \in d : e.port = port).meta, "live", n)
    ELSE QErr(n)

\* parse_event: what a WM_DEVICECHANGE broadcast is translated to; <<>> when
\* parse_event returns None (not a port device).
ParseEvent(d, scanOk, msg) ==
    CASE msg.kind = "DBT_DEVICEARRIVAL" /\ msg.devtype = "port" ->
            <<ParseArrival(d, scanOk, msg.port, msg.n)>>
      [] msg.kind = "DBT_DEVICEREMOVECOMPLETE" /\ msg.devtype = "port" ->
            <<QRemoveComplete(msg.port, msg.n)>>
      [] OTHER -> <<>>

\* The io::Error values the thread function can return: of CreateWindowExW /
\* SetWindowLongPtrW, of RegisterDeviceNotificationW, of GetMessageW.
ThreadErrors == {"ErrCreate", "ErrRegister", "ErrGetMessage"}

\* What Registry::spawn, and listen with it, returns: Ok(WindowEvents {..}),
\* whatever the thread it spawned goes on to do.
SpawnReturn == "Ok"

\* What the dispatcher does with one message: the items the window procedure
\* enqueues, the window afterwards, and where the thread goes.
Dispatched(items, win, next, result) ==
    [todo |-> items, window |-> win, after |-> next, tresult |-> result]

OnWmCloseSilent ==
    Dispatched(<<>>, "destroyed", "return", "Ok")

OnWmCloseNoBreak ==
    Dispatched(<<Sentinel>>, "alive", "loop", "running")

\* WM_CLOSE: DispatchMessageW -> DefWindowProcW -> DestroyWindow -> WM_DESTROY
\* (try_wake_with(None)); then break Ok(()).
OnWmClose ==
    Dispatched(<<Sentinel>>, "destroyed", "return", "Ok")

\* WM_USER: hkey::scan() and one Arrival per entry; nothing when it fails.
OnWmUserTwice(d, scanOk, order) ==
    Dispatched(IF scanOk
               THEN ArrivalsOf(order, "rescan") \o ArrivalsOf(order, "rescan")
               ELSE <<>>,
               "alive", "loop", "running")

OnWmUser(d, scanOk, order) ==
    Dispatched(IF scanOk THEN ArrivalsOf(order, "rescan") ELSE <<>>,
               "alive", "loop", "running")

OnWmDeviceChangeFatal(d, scanOk, msg) ==
    LET items == ParseEvent(d, scanOk, msg)
    IN  IF items # <<>> /\ items[1].kind = "Err"
        THEN Dispatched(items, "destroyed", "return", "ErrGetMessage")
        ELSE Dispatched(items, "alive", "loop", "running")

\* WM_DEVICECHANGE.
OnWmDeviceChange(d, scanOk, msg) ==
    Dispatched(ParseEvent(d, scanOk, msg), "alive", "loop", "running")

\* GetMessageW returned -1: break Err; the Window guard is dropped on the way
\* out, DestroyWindow sends WM_DESTROY.
OnGetMessageError ==
    Dispatched(<<Sentinel>>, "destroyed", "return", "ErrGetMessage")

\* registrations.register(..)? failed: the Window guard is dropped.
OnRegisterError ==
    Dispatched(<<Sentinel>>, "destroyed", "return", "ErrRegister")

consumerVars ==
    <<waker, joinHandle, cpc, cx, parked, closes, dropping, closeRet, closeLog,
      yielded>>

osVars == <<dir, osEvents, broadcasts, rescans, rescanLog>>

\* The thread takes up what a dispatch decided; the messages of a destroyed
\* window are gone.
Dispatch(r, restPosted, restSent) ==
    /\ todo' = r.todo
    /\ window' = r.window
    /\ after' = r.after
    /\ tresult' = r.tresult
    /\ thread' = IF r.todo = <<>> THEN r.after ELSE "push"
    /\ posted' = IF r.window = "alive" THEN restPosted ELSE <<>>
    /\ sent' = IF r.window = "alive" THEN restSent ELSE <<>>

\* device_notification_window_dispatcher up to the window: get_window_class
\* (panics when RegisterClassExW fails) and create_device_notification_window.
ThreadCreateWindow ==
    /\ thread = "start"
    /\ \E outcome \in {"ok", "fail", "panic"} :
          /\ window' = IF outcome = "ok" THEN "alive" ELSE "none"
          /\ thread' = CASE outcome = "ok" -> "register"
                         [] outcome = "fail" -> "return"
                         [] OTHER -> "exited"
          /\ tresult' = CASE outcome = "ok" -> "running"
                          [] outcome = "fail" -> "ErrCreate"
                          [] OTHER -> "Panic"
    /\ UNCHANGED <<scanLog, queue, woken, enqueued, snapshot, joined, posted, sent,
                   todo, after>>
    /\ UNCHANGED <<consumerVars, osVars, trackingVars, eventVars, channelVars, classVars>>

\* registrations.register(&hwnd, hwnd.discriminant())?.
ThreadRegister ==
    /\ thread = "register"
    /\ \E ok \in BOOLEAN :
          IF ok
          THEN /\ thread' = "loop"
               /\ UNCHANGED <<todo, window, after, tresult, posted, sent>>
          ELSE Dispatch(OnRegisterError, posted, sent)
    /\ UNCHANGED <<scanLog, queue, woken, enqueued, snapshot, joined>>
    /\ UNCHANGED <<consumerVars, osVars, trackingVars, eventVars, channelVars, classVars>>

\* A Directory scan made by the listener: who made it, whether it succeeded,
\* the entries it handed back, and how many items were enqueued before it.
Scanned(by, ok, found) ==
    [by |-> by, ok |-> ok, found |-> found, at |-> Len(enqueued)]

\* GetMessageW hands over a WM_DEVICECHANGE broadcast.  parse_event looks a
\* port arrival up with hkey::scan_for.
ThreadDeviceChange ==
    /\ thread = "loop"
    /\ sent # <<>>
    /\ \E scanOk \in BOOLEAN :
          LET r == OnWmDeviceChange(dir, scanOk, Head(sent))
          IN  /\ Dispatch(r, posted, Tail(sent))
              /\ scanLog' =
                    IF Head(sent).kind = "DBT_DEVICEARRIVAL"
                          /\ Head(sent).devtype = "port"
                    THEN Append(scanLog,
                                Scanned("arrival", r.todo[1].kind = "Arrival",
                                        { e \in dir : r.todo[1].kind = "Arrival"
                                                      /\ e.port = r.todo[1].port }))
                    ELSE scanLog
    /\ UNCHANGED <<queue, woken, enqueued, snapshot, joined>>
    /\ UNCHANGED <<consumerVars, osVars, trackingVars, eventVars, channelVars, classVars>>

\* GetMessageW hands over WM_USER, the rescan request.
ThreadRescan ==
    /\ thread = "loop"
    /\ posted # <<>>
    /\ Head(posted) = "WM_USER"
    /\ \E scanOk \in BOOLEAN, order \in Orders(dir) :
          /\ Dispatch(OnWmUser(dir, scanOk, order), Tail(posted), sent)
          /\ scanLog' = Append(scanLog,
                               Scanned("rescan", scanOk,
                                       IF scanOk THEN dir ELSE {}))
    /\ UNCHANGED <<queue, woken, enqueued, snapshot, joined>>
    /\ UNCHANGED <<consumerVars, osVars, trackingVars, eventVars, channelVars, classVars>>

\* GetMessageW hands over WM_CLOSE.
ThreadClose ==
    /\ thread = "loop"
    /\ posted # <<>>
    /\ Head(posted) = "WM_CLOSE"
    /\ Dispatch(OnWmClose, Tail(posted), sent)
    /\ UNCHANGED <<scanLog, queue, woken, enqueued, snapshot, joined>>
    /\ UNCHANGED <<consumerVars, osVars, trackingVars, eventVars, channelVars, classVars>>

\* GetMessageW returns -1.
ThreadGetMessageError ==
    /\ thread = "loop"
    /\ Dispatch(OnGetMessageError, posted, sent)
    /\ UNCHANGED <<scanLog, queue, woken, enqueued, snapshot, joined>>
    /\ UNCHANGED <<consumerVars, osVars, trackingVars, eventVars, channelVars, classVars>>

\* SharedQueue::try_wake_with, first half: self.queue.push(ev).
ThreadPush ==
    /\ thread = "push"
    /\ queue' = Push(queue, Head(todo))
    /\ enqueued' = Append(enqueued, Head(todo))
    /\ thread' = "wake"
    /\ UNCHANGED <<scanLog, woken, snapshot, joined, window, posted, sent, todo, after,
                   tresult>>
    /\ UNCHANGED <<consumerVars, osVars, trackingVars, eventVars, channelVars, classVars>>

\* SharedQueue::try_wake_with, second half: self.try_wake().
ThreadWake ==
    /\ thread = "wake"
    /\ woken' = TryWake(waker, woken)
    /\ todo' = Tail(todo)
    /\ thread' = IF Tail(todo) = <<>> THEN after ELSE "push"
    /\ UNCHANGED <<scanLog, queue, enqueued, snapshot, joined, window, posted, sent,
                   after, tresult>>
    /\ UNCHANGED <<consumerVars, osVars, trackingVars, eventVars, channelVars, classVars>>

\* What dropping the dispatcher's arc can do.  Arc::from_raw rebuilt it as an
\* Arc<Arc<SharedQueue>> from the pointer of an Arc<SharedQueue>, so the drop
\* decrements words that are not the queue's counters: undefined behaviour
\* that leaves the thread to return or takes the process down.
DropArcOutcomes == {"exited", "crashed"}

\* device_notification_window_dispatcher returns (break or ?): its locals are
\* dropped, the arc among them.
ThreadReturn ==
    /\ thread = "return"
    /\ \E outcome \in DropArcOutcomes : thread' = outcome
    /\ UNCHANGED <<scanLog, queue, woken, enqueued, snapshot, joined, window, posted,
                   sent, todo, after, tresult>>
    /\ UNCHANGED <<consumerVars, osVars, trackingVars, eventVars, channelVars, classVars>>

threadVars == <<thread, tresult, window, todo, after, scanLog>>

\* The process is running: no undefined behaviour has taken it down.
ProcessRunning == thread # "crashed"

\* SharedQueue::poll_next, first half: self.queue.pop().  An item or the
\* sentinel is returned at once; on None the call goes on to store the waker.
PollPop ==
    /\ ProcessRunning
    /\ cpc = "idle"
    /\ woken' = {}
    /\ IF queue # <<>>
       THEN /\ queue' = Tail(queue)
            /\ yielded' = Append(yielded, Head(queue))
            /\ parked' = 0
            /\ UNCHANGED <<cpc, cx>>
       ELSE /\ \E w \in Wakers : cx' = w
            /\ cpc' = "store"
            /\ UNCHANGED <<queue, yielded, parked>>
    /\ UNCHANGED <<waker, joinHandle, closes, dropping, closeRet, closeLog, enqueued,
                   snapshot, joined, posted, sent>>
    /\ UNCHANGED <<threadVars, osVars, trackingVars, eventVars, channelVars, classVars>>

\* SharedQueue::poll_next, second half: the waker is stored, Poll::Pending.
PollStore ==
    /\ ProcessRunning
    /\ cpc = "store"
    /\ waker' = StoreWaker(waker, cx)
    /\ parked' = cx
    /\ cpc' = "idle"
    /\ UNCHANGED <<queue, joinHandle, cx, woken, closes, dropping, closeRet, closeLog,
                   yielded, enqueued, snapshot, joined, posted, sent>>
    /\ UNCHANGED <<threadVars, osVars, trackingVars, eventVars, channelVars, classVars>>

\* close() returns ret: to the caller, or to drop, which ends the object.
CloseReturns(ret, isDrop) ==
    /\ closeRet' = ret
    /\ closeLog' = Append(closeLog, [ret |-> ret, byDrop |-> isDrop])
    /\ cpc' = IF isDrop THEN "dropped" ELSE "idle"

\* WindowEvents::close, FindWindowW: Err(last_os_error) when there is no
\* window of that name.  byDrop: the call is the one Drop makes.
CloseFind ==
    /\ ProcessRunning
    /\ cpc = "idle"
    /\ \E byDrop \in BOOLEAN :
          /\ closes < MaxCloses
          /\ closes' = closes + 1
          /\ dropping' = byDrop
          /\ IF window = "alive"
             THEN cpc' = "close_post" /\ UNCHANGED <<closeRet, closeLog>>
             ELSE CloseReturns("ErrFind", byDrop)
    /\ UNCHANGED <<queue, waker, joinHandle, cx, parked, woken, yielded,
                   enqueued, snapshot, joined, posted, sent>>
    /\ UNCHANGED <<threadVars, osVars, trackingVars, eventVars, channelVars, classVars>>

\* WindowEvents::close, PostMessageW(hwnd, WM_CLOSE) and join_handle.take().
ClosePost ==
    /\ ProcessRunning
    /\ cpc = "close_post"
    /\ IF window # "alive"
       THEN /\ CloseReturns("ErrPost", dropping)
            /\ UNCHANGED <<posted, joinHandle>>
       ELSE /\ posted' = Append(posted, "WM_CLOSE")
            /\ IF joinHandle = "None"
               THEN CloseReturns("ErrAlreadyClosed", dropping)
                    /\ UNCHANGED joinHandle
               ELSE /\ joinHandle' = "None"
                    /\ cpc' = "close_join"
                    /\ UNCHANGED <<closeRet, closeLog>>
    /\ UNCHANGED <<queue, waker, cx, parked, woken, closes, dropping, yielded,
                   enqueued, snapshot, joined, sent>>
    /\ UNCHANGED <<threadVars, osVars, trackingVars, eventVars, channelVars, classVars>>

\* WindowEvents::close, jh.join(): blocks until the thread has returned.
CloseJoin ==
    /\ cpc = "close_join"
    /\ thread = "exited"
    /\ joined' = TRUE
    /\ CloseReturns(CASE tresult = "Ok" -> "Ok"
                      [] tresult \in ThreadErrors -> "ErrThread"
                      [] OTHER -> "ErrJoin", dropping)
    /\ UNCHANGED <<queue, waker, joinHandle, cx, parked, woken, closes,
                   dropping, yielded, enqueued, snapshot, posted, sent>>
    /\ UNCHANGED <<threadVars, osVars, trackingVars, eventVars, channelVars, classVars>>

\* The OS sends a WM_DEVICECHANGE broadcast to the window.
Broadcast(msg) ==
    /\ sent' = Append(sent, msg)
    /\ broadcasts' = Append(broadcasts, msg)

\* The OS broadcasts the arrival of a port device to the window.
OsArrival ==
    /\ ProcessRunning
    /\ window = "alive"
    /\ osEvents < MaxOsEvents
    /\ \E p \in Ports \ DirPorts(dir) :
          /\ dir' = dir \cup { [port |-> p, meta |-> DeviceOf(p)] }
          /\ Broadcast([kind |-> "DBT_DEVICEARRIVAL", port |-> p,
                        devtype |-> "port", n |-> osEvents + 1])
    /\ osEvents' = osEvents + 1
    /\ UNCHANGED <<queue, woken, enqueued, snapshot, joined, posted, rescans,
                   rescanLog>>
    /\ UNCHANGED <<consumerVars, threadVars, trackingVars, eventVars, channelVars, classVars>>

\* The OS broadcasts the completed removal of a port device.
OsRemoveComplete ==
    /\ ProcessRunning
    /\ window = "alive"
    /\ osEvents < MaxOsEvents
    /\ \E e \in dir :
          /\ dir' = dir \ {e}
          /\ Broadcast([kind |-> "DBT_DEVICEREMOVECOMPLETE", port |-> e.port,
                        devtype |-> "port", n |-> osEvents + 1])
    /\ osEvents' = osEvents + 1
    /\ UNCHANGED <<queue, woken, enqueued, snapshot, joined, posted, rescans,
                   rescanLog>>
    /\ UNCHANGED <<consumerVars, threadVars, trackingVars, eventVars, channelVars, classVars>>

\* The OS broadcasts a device change that is not about a port.
OsOtherDevice ==
    /\ ProcessRunning
    /\ window = "alive"
    /\ osEvents < MaxOsEvents
    /\ Broadcast([kind |-> "DBT_DEVICEARRIVAL", port |-> NoPort,
                  devtype |-> "other", n |-> osEvents + 1])
    /\ osEvents' = osEvents + 1
    /\ UNCHANGED <<queue, woken, enqueued, snapshot, joined, posted, rescans,
                   rescanLog, dir>>
    /\ UNCHANGED <<consumerVars, threadVars, trackingVars, eventVars, channelVars, classVars>>

RescanPostsUnseen(win, msgs, postOk) ==
    [posted |-> Append(msgs, "WM_USER"),
     ret |-> IF win = "alive" THEN "Ok" ELSE "ErrFind"]

\* rescan(name): FindWindowW, then PostMessageW(hwnd, WM_USER, 0, 0).  The
\* messages posted to the window afterwards, and what the call returns.
RescanWindow(win, msgs, postOk) ==
    IF win # "alive" THEN [posted |-> msgs, ret |-> "ErrFind"]
    ELSE IF ~postOk THEN [posted |-> msgs, ret |-> "ErrPost"]
    ELSE [posted |-> Append(msgs, "WM_USER"), ret |-> "Ok"]

\* Some thread of the process calls rescan(name) with the listener's name.
Rescan ==
    /\ ProcessRunning
    /\ rescans < MaxRescans
    /\ \E postOk \in BOOLEAN :
          LET r == RescanWindow(window, posted, postOk)
          IN  /\ posted' = r.posted
              /\ rescanLog' = Append(rescanLog,
                                     [ret |-> r.ret, window |-> window])
    /\ rescans' = rescans + 1
    /\ UNCHANGED <<queue, woken, enqueued, snapshot, joined, sent, dir,
                   osEvents, broadcasts>>
    /\ UNCHANGED <<consumerVars, threadVars, trackingVars, eventVars, channelVars, classVars>>

\* No Tracking combinator: its fields at rest.
NoTracking ==
    /\ tracking = "Complete" /\ given = <<>> /\ ids = <<>> /\ cache = {}
    /\ inner = <<>>
    /\ fed = 0 /\ tracked = <<>> /\ lastPoll = NoCall

\* Registry::spawn has returned: the queue holds one Arrival per entry of the
\* scan (none when the scan failed), the thread is spawned and has not run.
InitWindow ==
    /\ NoTracking
    /\ NoEvent
    /\ NoChannel
    /\ NoClass
    /\ dir \in Directories
    /\ \E scanOk \in BOOLEAN :
          /\ snapshot = IF scanOk THEN dir ELSE {}
          /\ scanLog = <<[by |-> "spawn", ok |-> scanOk, found |-> snapshot,
                          at |-> 0]>>
    /\ \E order \in Orders(snapshot) :
          queue = WithEvents(ArrivalsOf(order, "seed"))
    /\ enqueued = queue
    /\ waker = 0
    /\ joinHandle = "Some"
    /\ cpc = "idle" /\ cx = 0 /\ parked = 0 /\ woken = {}
    /\ closes = 0 /\ dropping = FALSE /\ closeRet = "none" /\ closeLog = <<>>
    /\ yielded = <<>>
    /\ thread = "start" /\ tresult = "running" /\ joined = FALSE
    /\ window = "none" /\ posted = <<>> /\ sent = <<>>
    /\ todo = <<>> /\ after = "loop"
    /\ osEvents = 0 /\ rescans = 0 /\ broadcasts = <<>> /\ rescanLog = <<>>

NextWindow ==
    \/ ThreadCreateWindow
    \/ ThreadRegister
    \/ ThreadDeviceChange
    \/ ThreadRescan
    \/ ThreadClose
    \/ ThreadGetMessageError
    \/ ThreadPush
    \/ ThreadWake
    \/ ThreadReturn
    \/ PollPop
    \/ PollStore
    \/ CloseFind
    \/ ClosePost
    \/ CloseJoin
    \/ OsArrival
    \/ OsRemoveComplete
    \/ OsOtherDevice
    \/ Rescan

SpecWindow == InitWindow /\ [][NextWindow]_vars

(* ---------------------- Event and EventListener ----------------------- *)

EventResets == {"Manual", "Auto"}
EventStates == {"Set", "Unset"}

\* Event::anonymous(reset, initial): a fresh event object, nothing called yet.
EventAnonymous(reset, initial) ==
    [reset |-> reset, state |-> initial, ops |-> 0, sets |-> 0]

\* A wait future as start()/restart() returns it.  armedUnset and setsAtStart
\* record the event as it was when the wait began.
NewWait(ev) ==
    [status |-> "Waiting", polls |-> <<>>,
     armedUnset |-> (ev.state = "Unset"), setsAtStart |-> ev.sets]

\* start(): with a wait outstanding the call fails and changes nothing;
\* otherwise the listener begins a wait and hands out its future.  This ignores
\* the outstanding wait and begins another.
StartWaitAlways(l, fs, ev) ==
    [ret |-> "Ok", listener |-> "Waiting", futs |-> Append(fs, NewWait(ev))]

StartWait(l, fs, ev) ==
    IF l = "Waiting"
    THEN [ret |-> "InProgress", listener |-> l, futs |-> fs]
    ELSE [ret |-> "Ok", listener |-> "Waiting", futs |-> Append(fs, NewWait(ev))]

\* What a poll of a wait future returns.
PollWait(f) == IF f.status = "Signaled" THEN "Ready" ELSE "Pending"

\* Event::set().
EventSet ==
    /\ event.ops < MaxEventOps
    /\ event' = [event EXCEPT !.state = "Set", !.ops = @ + 1, !.sets = @ + 1]
    /\ UNCHANGED <<listener, futs, startLog, trackingVars, windowVars,
                   channelVars, classVars>>

\* Event::reset().
EventReset ==
    /\ event.ops < MaxEventOps
    /\ event' = [event EXCEPT !.state = "Unset", !.ops = @ + 1]
    /\ UNCHANGED <<listener, futs, startLog, trackingVars, windowVars,
                   channelVars, classVars>>

Started(op) ==
    LET r == StartWait(listener, futs, event) IN
    /\ listener' = r.listener
    /\ futs' = r.futs
    /\ startLog' = Append(startLog, [op |-> op, ret |-> r.ret,
                                     busy |-> (listener = "Waiting"),
                                     waits |-> Len(r.futs)])
    /\ UNCHANGED <<event, trackingVars, windowVars,
                   channelVars, classVars>>

\* EventListener::start(&ev, None).
ListenerStart ==
    /\ Len(startLog) < MaxWaits
    /\ Started("start")

\* EventListener::restart(&ev, None): re-arms a listener that was started.
ListenerRestart ==
    /\ Len(startLog) < MaxWaits
    /\ listener # "Idle"
    /\ Started("restart")

\* The helper thread's blocking wait returns: the event is in its set state.
\* An auto-reset event is cleared by the wait it satisfies.
ListenerWait ==
    /\ listener = "Waiting"
    /\ event.state = "Set"
    /\ listener' = "Completed"
    /\ futs' = [futs EXCEPT ![Len(futs)].status = "Signaled"]
    /\ event' = IF event.reset = "Auto"
                THEN [event EXCEPT !.state = "Unset"]
                ELSE event
    /\ UNCHANGED <<startLog, trackingVars, windowVars,
                   channelVars, classVars>>

\* A poll of the i-th future handed out; a future that returned Ready is not
\* polled again.
FuturePoll ==
    \E i \in DOMAIN futs :
        /\ Len(futs[i].polls) < MaxPolls
        /\ \A k \in DOMAIN futs[i].polls : futs[i].polls[k] # "Ready"
        /\ futs' = [futs EXCEPT ![i].polls = Append(@, PollWait(futs[i]))]
        /\ UNCHANGED <<event, listener, startLog, trackingVars, windowVars,
                   channelVars, classVars>>

InitEvent ==
    /\ NoTracking
    /\ NoListener
    /\ NoChannel
    /\ NoClass
    /\ \E reset \in EventResets, initial \in EventStates :
           event = EventAnonymous(reset, initial)
    /\ listener = "Idle"
    /\ futs = <<>>
    /\ startLog = <<>>

NextEvent ==
    \/ EventSet
    \/ EventReset
    \/ ListenerStart
    \/ ListenerRestart
    \/ ListenerWait
    \/ FuturePoll

SpecEvent == InitEvent /\ [][NextEvent]_vars

(* --------------------- channel.rs: the task queue ---------------------- *)

\* Some(Ok(bytes)), Some(Err(e)) and the None of a dropped ThreadQueue as
\* items of State.task.  Ghost field k: the item is the k-th the queue took.
TOk(bytes, k) == [kind |-> "Ok", bytes |-> bytes, k |-> k]
TErr(k) == [kind |-> "Err", bytes |-> <<>>, k |-> k]
TEnd(k) == [kind |-> "None", bytes |-> <<>>, k |-> k]

\* BytesMut contents: len fresh bytes, numbered on from n.
Fresh(n, len) == [i \in 1..len |-> n + i]

\* ArrayQueue::push: refused when the queue is full.
ArrayPush(q, item) ==
    IF Len(q) < Capacity
    THEN [ok |-> TRUE, q |-> Append(q, item)]
    ELSE [ok |-> FALSE, q |-> q]

\* ArrayQueue::force_push: a full queue gives up its oldest element.
ForcePush(q, item) ==
    IF Len(q) < Capacity THEN Append(q, item) ELSE Append(Tail(q), item)

\* The waker left in a Mutex<Option<Waker>> by a poll that returns Pending.
\* The task polls with one waker (1).
KeepWaker(old) == 1

\* ThreadQueue::push_ok / push_err after the queue took the item: the read
\* waker, if one is stored, is woken.
Pushed(item) ==
    LET r == ArrayPush(taskQ, item)
    IN  /\ taskQ' = r.q
        /\ taskPushed' = IF r.ok THEN Append(taskPushed, item) ELSE taskPushed
        /\ readWoken' = (readWoken \/ (r.ok /\ readWaker # 0))
        /\ nextByte' = IF r.ok THEN nextByte + Len(item.bytes) ELSE nextByte
        /\ pushes' = pushes + 1

\* ThreadQueue::push_ok(bytes).
PushOk ==
    /\ handles > 0
    /\ pushes < MaxPushes
    /\ \E len \in 1..MaxChunk :
          Pushed(TOk(Fresh(nextByte, len), Len(taskPushed) + 1))
    /\ UNCHANGED <<readWaker, handles, front, reader, readLog>>
    /\ UNCHANGED <<inCall, threadSideVars, trackingVars, windowVars, eventVars,
                   classVars>>

\* ThreadQueue::push_err(err).
PushErr ==
    /\ handles > 0
    /\ pushes < MaxPushes
    /\ Pushed(TErr(Len(taskPushed) + 1))
    /\ UNCHANGED <<readWaker, handles, front, reader, readLog>>
    /\ UNCHANGED <<inCall, threadSideVars, trackingVars, windowVars, eventVars,
                   classVars>>

\* The ThreadQueue handles dropped so far: each left one None.
Dropped == Cardinality({i \in DOMAIN taskPushed : taskPushed[i].kind = "None"})

\* ThreadQueue::clone.
CloneThreadQueue ==
    /\ handles > 0
    /\ handles + Dropped < MaxHandles
    /\ handles' = handles + 1
    /\ UNCHANGED <<taskQ, readWaker, readWoken, front, reader, pushes,
                   nextByte, taskPushed, readLog>>
    /\ UNCHANGED <<inCall, threadSideVars, trackingVars, windowVars, eventVars,
                   classVars>>

\* Drop for ThreadQueue: self.0.task.force_push(None).  No waker is woken.
DropThreadQueue ==
    /\ handles > 0
    /\ handles' = handles - 1
    /\ taskQ' = ForcePush(taskQ, TEnd(Len(taskPushed) + 1))
    /\ taskPushed' = Append(taskPushed, TEnd(Len(taskPushed) + 1))
    /\ UNCHANGED <<readWaker, readWoken, front, reader, pushes, nextByte,
                   readLog>>
    /\ UNCHANGED <<inCall, threadSideVars, trackingVars, windowVars, eventVars,
                   classVars>>

\* What a poll of the task side returned (ghost): the call, the caller's
\* buffer length, Pending / Ready(item) or Pending / Ok(n) / Err, the bytes
\* copied into the buffer, what each pop of the queue gave (NoItem for an
\* empty queue), whether the queue was empty when the call began, the Reader
\* before and after the call.
Polled(op, size, ret, item, copied, polls, was, now) ==
    [op |-> op, size |-> size, ret |-> ret, item |-> item,
     n |-> IF ret = "Ok" THEN Len(copied) ELSE 0, copied |-> copied,
     polls |-> polls, empty |-> (taskQ = <<>>), was |-> was, now |-> now]

\* TaskStream::poll_next: self.0.task.pop(); on None the waker is stored.
TaskStreamPollNext(q) ==
    IF q = <<>>
    THEN [ret |-> "Pending", item |-> NoItem, q |-> q, park |-> TRUE]
    ELSE [ret |-> "Ready", item |-> Head(q), q |-> Tail(q), park |-> FALSE]

\* The task polls its TaskStream.
StreamPoll ==
    /\ front = "stream"
    /\ Len(readLog) < MaxReads
    /\ LET r == TaskStreamPollNext(taskQ)
       IN  /\ taskQ' = r.q
           /\ readWaker' = IF r.park THEN KeepWaker(readWaker) ELSE readWaker
           /\ readLog' = Append(readLog,
                                Polled("poll_next", 0, r.ret, r.item, <<>>,
                                       <<r.item>>, reader, reader))
    /\ readWoken' = FALSE
    /\ UNCHANGED <<handles, front, reader, pushes, nextByte, taskPushed>>
    /\ UNCHANGED <<inCall, threadSideVars, trackingVars, windowVars, eventVars,
                   classVars>>

\* The result of Reader::poll_read.
ReadResult(ret, copied, q, cur, state, polls, park) ==
    [ret |-> ret, copied |-> copied, q |-> q, cur |-> cur, state |-> state,
     polls |-> polls, park |-> park]

OnCurrentErrSwallowed(q, cur, copied, polls) ==
    IF Len(copied) > 0
    THEN ReadResult("Ok", copied, q, NoItem, "Incomplete", polls, FALSE)
    ELSE ReadResult("Err", copied, q, NoItem, "Incomplete", polls, FALSE)

\* Reader::poll_read with current == Some(Err(_)): bytes already copied are
\* returned and the error stays in current; otherwise the error is taken
\* and returned.
OnCurrentErr(q, cur, copied, polls) ==
    IF Len(copied) > 0
    THEN ReadResult("Ok", copied, q, cur, "Incomplete", polls, FALSE)
    ELSE ReadResult("Err", copied, q, NoItem, "Incomplete", polls, FALSE)

\* The loop of Reader::poll_read in the Incomplete variant: q is the task
\* queue, cur is current, size is buf.len(), copied is buf[..idx].
RECURSIVE ReadLoop(_, _, _, _, _)
ReadLoop(q, cur, size, copied, polls) ==
    LET idx == Len(copied)
        remaining == size - idx
    IN  CASE cur.kind = "Empty" ->
               LET p == TaskStreamPollNext(q)
                   seen == Append(polls, p.item)
               IN  IF p.ret = "Pending"
                   THEN \* futures::ready! returns Poll::Pending
                        ReadResult("Pending", copied, p.q, cur, "Incomplete",
                                   seen, TRUE)
                   ELSE IF p.item.kind = "None"
                   THEN \* project_replace(Reader::Complete); Ok(idx)
                        ReadResult("Ok", copied, p.q, NoItem, "Complete",
                                   seen, FALSE)
                   ELSE ReadLoop(p.q, p.item, size, copied, seen)
          [] cur.kind = "Err" -> OnCurrentErr(q, cur, copied, polls)
          [] OTHER ->
               IF Len(cur.bytes) <= remaining
               THEN ReadLoop(q, NoItem, size, copied \o cur.bytes, polls)
               ELSE ReadResult("Ok",
                               copied \o SubSeq(cur.bytes, 1, remaining), q,
                               [cur EXCEPT !.bytes =
                                   SubSeq(@, remaining + 1, Len(@))],
                               "Incomplete", polls, FALSE)

ReaderPollReadRepolling(rd, q, size) ==
    ReadLoop(q, rd.current, size, <<>>, <<>>)

\* Reader::poll_read(cx, buf) with buf.len() = size.
ReaderPollRead(rd, q, size) ==
    IF rd.state = "Complete"
    THEN ReadResult("Ok", <<>>, q, NoItem, "Complete", <<>>, FALSE)
    ELSE ReadLoop(q, rd.current, size, <<>>, <<>>)

\* The error a poll_read returned: the one it took out of current, which it
\* began with or popped last.
ErrTaken(rd, r) ==
    IF r.ret # "Err" THEN NoItem
    ELSE IF r.polls = <<>> THEN rd.current
    ELSE r.polls[Len(r.polls)]

\* The task polls its Reader with a buffer of some length.
ReaderPoll ==
    /\ front = "reader"
    /\ Len(readLog) < MaxReads
    /\ \E size \in 0..MaxBuf :
          LET r == ReaderPollRead(reader, taskQ, size)
              now == [state |-> r.state, current |-> r.cur]
          IN  /\ taskQ' = r.q
              /\ reader' = now
              /\ readWaker' = IF r.park THEN KeepWaker(readWaker)
                              ELSE readWaker
              /\ readLog' = Append(readLog,
                                   Polled("poll_read", size, r.ret,
                                          ErrTaken(reader, r), r.copied,
                                          r.polls, reader, now))
    /\ readWoken' = FALSE
    /\ UNCHANGED <<handles, front, pushes, nextByte, taskPushed>>
    /\ UNCHANGED <<inCall, threadSideVars, trackingVars, windowVars, eventVars,
                   classVars>>

\* channel::bounded(handle, Capacity), then task.listen() or task.reader().
InitTaskSide ==
    /\ NoTracking
    /\ NoListener
    /\ NoEvent
    /\ NoThreadSide
    /\ NoClass
    /\ inCall = NotInCall
    /\ taskQ = <<>> /\ readWaker = 0 /\ readWoken = FALSE /\ handles = 1
    /\ front \in {"stream", "reader"}
    /\ reader = [state |-> "Incomplete", current |-> NoItem]
    /\ pushes = 0 /\ nextByte = 0 /\ taskPushed = <<>> /\ readLog = <<>>

NextTaskSide ==
    \/ PushOk
    \/ PushErr
    \/ CloneThreadQueue
    \/ DropThreadQueue
    \/ StreamPoll
    \/ ReaderPoll

SpecTaskSide == InitTaskSide /\ [][NextTaskSide]_vars

(* -------------------- channel.rs: the thread queue --------------------- *)

\* Some(bytes) and None as items of State.thread.  Ghost fields: the item is
\* the k-th the queue took, and the call it came from.
WSome(bytes, k, by) == [kind |-> "Some", bytes |-> bytes, k |-> k, by |-> by]
WNone(k, by) == [kind |-> "None", bytes |-> <<>>, k |-> k, by |-> by]

\* The close markers sent so far.
Markers ==
    Cardinality({i \in DOMAIN threadPushed : threadPushed[i].kind = "None"})

\* TaskQueue::push(bytes): Overflow when the queue is full; otherwise the
\* buffer is queued and the result is that of handle.wake().
TaskPush ==
    /\ taskAlive
    /\ writes < MaxWrites
    /\ \E len \in 1..MaxOut, wakeOk \in BOOLEAN :
          LET item == WSome(Fresh(nextOut, len), Len(threadPushed) + 1, "push")
              r == ArrayPush(threadQ, item)
          IN  /\ threadQ' = r.q
              /\ threadPushed' = IF r.ok THEN Append(threadPushed, item)
                                 ELSE threadPushed
              /\ nextOut' = IF r.ok THEN nextOut + len ELSE nextOut
              /\ writeRet' = IF ~r.ok THEN "Overflow"
                             ELSE IF wakeOk THEN "Ok" ELSE "Io"
    /\ writes' = writes + 1
    /\ UNCHANGED <<writeWaker, writeWoken, taskAlive, threadTaken, popLog,
                   flushLog, collecting>>
    /\ UNCHANGED <<taskSideVars, trackingVars, windowVars, eventVars, classVars>>

\* Writer::poll_write(cx, buf): Ready(Ok(buf.len())) when the queue took the
\* buffer; on a full queue the write waker is stored and Pending returned.
WriterPollWrite ==
    /\ writes < MaxWrites
    /\ \E len \in 1..MaxOut :
          LET item == WSome(Fresh(nextOut, len), Len(threadPushed) + 1, "write")
              r == ArrayPush(threadQ, item)
          IN  /\ threadQ' = r.q
              /\ threadPushed' = IF r.ok THEN Append(threadPushed, item)
                                 ELSE threadPushed
              /\ nextOut' = IF r.ok THEN nextOut + len ELSE nextOut
              /\ writeRet' = IF r.ok THEN "Ready" ELSE "Pending"
              /\ writeWaker' = IF r.ok THEN writeWaker
                               ELSE KeepWaker(writeWaker)
    /\ writes' = writes + 1
    /\ UNCHANGED <<writeWoken, taskAlive, threadTaken, popLog, flushLog,
                   collecting>>
    /\ UNCHANGED <<taskSideVars, trackingVars, windowVars, eventVars, classVars>>

PollFlushWhenRoom(q) == IF Len(q) < Capacity THEN "Ready" ELSE "Pending"

\* Writer::poll_flush: Ready(Ok(())) when self.0.thread.is_empty().
PollFlush(q) == IF q = <<>> THEN "Ready" ELSE "Pending"

\* The data buffers among the items of a sequence.
Buffers(items) == {x \in {items[i] : i \in DOMAIN items} : x.kind = "Some"}

\* What the latest poll_flush returned (ghost): whether a written buffer was
\* in the queue it looked at, whether the thread side had taken a buffer by
\* then, whether it had taken every buffer written by then, and whether a
\* close marker had been sent by then.
Flushed(ret) ==
    [ret |-> ret,
     queued |-> Buffers(threadQ) # {},
     some |-> Buffers(threadTaken) # {},
     consumed |-> Buffers(threadPushed) \subseteq Buffers(threadTaken),
     closed |-> Markers > 0]

\* Writer::poll_flush(cx).
WriterPollFlush ==
    /\ LET ret == PollFlush(threadQ)
       IN  /\ flushLog' = <<Flushed(ret)>>
           /\ writeWaker' = IF ret = "Pending" THEN KeepWaker(writeWaker)
                            ELSE writeWaker
    /\ UNCHANGED <<threadQ, writeWoken, taskAlive, writes, writeRet, nextOut,
                   threadPushed, threadTaken, popLog, collecting>>
    /\ UNCHANGED <<taskSideVars, trackingVars, windowVars, eventVars, classVars>>

\* force_push(None) on the thread queue.
SendMarker(by) ==
    /\ Markers < MaxMarkers
    /\ threadQ' = ForcePush(threadQ, WNone(Len(threadPushed) + 1, by))
    /\ threadPushed' = Append(threadPushed, WNone(Len(threadPushed) + 1, by))

\* Writer::poll_close(cx).
WriterPollClose ==
    /\ SendMarker("close")
    /\ UNCHANGED <<writeWaker, writeWoken, taskAlive, writes, writeRet,
                   nextOut, threadTaken, popLog, flushLog, collecting>>
    /\ UNCHANGED <<taskSideVars, trackingVars, windowVars, eventVars, classVars>>

\* Drop for TaskQueue.
DropTaskQueue ==
    /\ taskAlive
    /\ taskAlive' = FALSE
    /\ SendMarker("drop")
    /\ UNCHANGED <<writeWaker, writeWoken, writes, writeRet, nextOut,
                   threadTaken, popLog, flushLog, collecting>>
    /\ UNCHANGED <<taskSideVars, trackingVars, windowVars, eventVars, classVars>>

\* What the latest ThreadQueue::pop or collect returned (ghost): for pop,
\* None / Some(Some(bytes)) / Some(None); for collect, the bytes and done;
\* whether the queue was empty when the (last step of the) call began; the
\* places in threadTaken of what the call took; for collect, the queue when
\* the call began and when it returned, and how many items had been sent to
\* the queue by then.
Popped(op, ret, bytes, done, c) ==
    [op |-> op, ret |-> ret, bytes |-> bytes, done |-> done,
     empty |-> (threadQ = <<>>), from |-> c.from, to |-> Len(threadTaken'),
     q0 |-> c.q0, left |-> IF c.active THEN threadQ' ELSE <<>>,
     sent |-> c.sent, upto |-> IF c.active THEN Len(threadPushed) ELSE 0]

\* ThreadQueue::pop: with len() > 0 the write waker is woken and the oldest
\* item popped.
ThreadPop ==
    /\ ~collecting.active
    /\ IF Len(threadQ) > 0
       THEN /\ writeWoken' = (writeWoken \/ writeWaker # 0)
            /\ threadQ' = Tail(threadQ)
            /\ threadTaken' = Append(threadTaken, Head(threadQ))
            /\ popLog' = <<Popped("pop",
                                  IF Head(threadQ).kind = "None"
                                  THEN "SomeNone" ELSE "SomeSome",
                                  Head(threadQ).bytes, FALSE,
                                  [NotCollecting EXCEPT
                                      !.from = Len(threadTaken)])>>
       ELSE /\ UNCHANGED <<writeWoken, threadQ, threadTaken>>
            /\ popLog' = <<Popped("pop", "None", <<>>, FALSE,
                                  [NotCollecting EXCEPT
                                      !.from = Len(threadTaken)])>>
    /\ UNCHANGED <<writeWaker, taskAlive, writes, writeRet, nextOut,
                   threadPushed, flushLog, collecting>>
    /\ UNCHANGED <<taskSideVars, trackingVars, windowVars, eventVars, classVars>>

\* ThreadQueue::collect is entered: ret = BytesMut::new(), done = false.
CollectBegin ==
    /\ ~collecting.active
    /\ collecting' = [active |-> TRUE, ret |-> <<>>,
                      from |-> Len(threadTaken), q0 |-> threadQ,
                      sent |-> Len(threadPushed)]
    /\ UNCHANGED <<threadQ, writeWaker, writeWoken, taskAlive, writes,
                   writeRet, nextOut, threadPushed, threadTaken, popLog,
                   flushLog>>
    /\ UNCHANGED <<taskSideVars, trackingVars, windowVars, eventVars, classVars>>

CollectOnePastMarker(q, ret) ==
    IF q = <<>>
    THEN [fin |-> TRUE, done |-> FALSE, q |-> q, ret |-> ret, took |-> <<>>]
    ELSE [fin |-> FALSE, done |-> FALSE, q |-> Tail(q),
          ret |-> ret \o Head(q).bytes, took |-> <<Head(q)>>]

\* One round of the while-let of collect: self.0.thread.pop(), then put or
\* break.
CollectOne(q, ret) ==
    IF q = <<>>
    THEN [fin |-> TRUE, done |-> FALSE, q |-> q, ret |-> ret, took |-> <<>>]
    ELSE IF Head(q).kind = "None"
    THEN [fin |-> TRUE, done |-> TRUE, q |-> Tail(q), ret |-> ret,
          took |-> <<Head(q)>>]
    ELSE [fin |-> FALSE, done |-> FALSE, q |-> Tail(q),
          ret |-> ret \o Head(q).bytes, took |-> <<Head(q)>>]

\* ThreadQueue::collect goes round its loop once; when the loop ends, the
\* write waker is woken if ret.len() > 0 and (ret, done) is returned.
CollectStep ==
    /\ collecting.active
    /\ LET r == CollectOne(threadQ, collecting.ret)
       IN  /\ threadQ' = r.q
           /\ threadTaken' = threadTaken \o r.took
           /\ IF r.fin
              THEN /\ collecting' = NotCollecting
                   /\ writeWoken' =
                         (writeWoken \/ (Len(r.ret) > 0 /\ writeWaker # 0))
                   /\ popLog' = <<Popped("collect", "Collected", r.ret,
                                         r.done, collecting)>>
              ELSE /\ collecting' = [collecting EXCEPT !.ret = r.ret]
                   /\ UNCHANGED <<writeWoken, popLog>>
    /\ UNCHANGED <<writeWaker, taskAlive, writes, writeRet, nextOut,
                   threadPushed, flushLog>>
    /\ UNCHANGED <<taskSideVars, trackingVars, windowVars, eventVars, classVars>>

\* channel::bounded(handle, Capacity), task.writer(), and the thread that
\* owns the ThreadQueue.
InitThreadSide ==
    /\ NoTracking
    /\ NoListener
    /\ NoEvent
    /\ NoTaskSide
    /\ NoClass
    /\ threadQ = <<>> /\ writeWaker = 0 /\ writeWoken = FALSE
    /\ taskAlive = TRUE
    /\ writes = 0 /\ writeRet = "none" /\ nextOut = 0
    /\ threadPushed = <<>> /\ threadTaken = <<>>
    /\ popLog = <<>> /\ flushLog = <<>>
    /\ collecting = NotCollecting

NextThreadSide ==
    \/ TaskPush
    \/ WriterPollWrite
    \/ WriterPollFlush
    \/ WriterPollClose
    \/ DropTaskQueue
    \/ ThreadPop
    \/ CollectBegin
    \/ CollectStep

SpecThreadSide == InitThreadSide /\ [][NextThreadSide]_vars

(* ------------------------ claims on Tracking -------------------------- *)

\* The turns of the loop made by the last poll_next call.
Steps == lastPoll.steps

Matches(list, meta) == \E j \in DOMAIN list : list[j] = meta

CacheSenders(c) == { e.sender : e \in c }

\* C1: the unplugged future of every TrackedPort resolves at most once, and
\* only after a RemoveComplete for its port was processed after the Arrival
\* that made it; polling it again never gives a second resolution.
C1_UnpluggedAtMostOnceAfterRemoval ==
    \A c \in DOMAIN tracked :
        /\ tracked[c].resolved <= 1
        /\ tracked[c].resolved >= 1 => tracked[c].removed
        /\ tracked[c].unplugged = "Complete" <=> tracked[c].resolved = 1

\* C1 witness: an unplugged future resolved and was then polled again.
C1_Witness ==
    /\ lastPoll.op = "poll"
    /\ lastPoll.ret = "Panic"
    /\ tracked[lastPoll.chan].resolved = 1
    /\ tracked[lastPoll.chan].removed

\* C2 as stated: an Arrival emits a TrackedPort{port, meta} if and only if
\* its meta equals an entry of the allow-list; a non-matching Arrival emits
\* nothing and leaves the cache unchanged.
C2_ArrivalEmitsIffMatch ==
    \A i \in DOMAIN Steps :
        LET st == Steps[i]
        IN  st.item.kind = "Arrival" =>
              /\ (/\ st.emit.kind = "TrackedPort"
                  /\ st.emit.port = st.item.port
                  /\ st.emit.ids = st.item.meta)
                 <=> Matches(ids, st.item.meta)
              /\ ~Matches(ids, st.item.meta) =>
                    st.emit = NoEmit /\ st.after = st.before

\* C2 amended: an Arrival emits a TrackedPort{port, meta} if and only if its
\* meta equals an entry of the allow-list and TrackedPort::track succeeds; a
\* matching Arrival whose oneshot channel cannot be made emits that error and
\* leaves the cache unchanged; a non-matching Arrival emits nothing, no error,
\* and leaves the cache unchanged.
C2_ArrivalEmitsIffMatchAndTracked ==
    \A i \in DOMAIN Steps :
        LET st == Steps[i]
        IN  st.item.kind = "Arrival" =>
              /\ (/\ st.emit.kind = "TrackedPort"
                  /\ st.emit.port = st.item.port
                  /\ st.emit.ids = st.item.meta)
                 <=> (Matches(ids, st.item.meta) /\ st.item.ok)
              /\ (Matches(ids, st.item.meta) /\ ~st.item.ok) =>
                    st.emit = EmitErr /\ st.after = st.before
              /\ ~Matches(ids, st.item.meta) =>
                    st.emit = NoEmit /\ st.after = st.before

\* C2 witness: one call dropped a non-matching Arrival and then emitted the
\* TrackedPort of a matching one.
C2_Witness ==
    /\ Len(Steps) = 2
    /\ Steps[1].item.kind = "Arrival"
    /\ ~Matches(ids, Steps[1].item.meta)
    /\ Steps[2].item.kind = "Arrival"
    /\ Matches(ids, Steps[2].item.meta)
    /\ Steps[2].emit.kind = "TrackedPort"

\* C3: while Streaming the cache holds at most one Sender per port, and has
\* an entry for p exactly when a matching Arrival(p) was processed
\* successfully and no RemoveComplete(p) was processed since.
C3_CacheTracksLivePorts ==
    tracking = "Streaming" =>
        \A p \in Ports :
            /\ Cardinality({ e \in cache : e.port = p }) <= 1
            /\ p \in CachePorts(cache)
                  <=> \E c \in DOMAIN tracked :
                         tracked[c].port = p /\ ~tracked[c].removed

\* C3 witness: a port is cached again after an earlier tracker of it was
\* removed, while another channel of the model is no longer cached.
C3_Witness ==
    /\ tracking = "Streaming"
    /\ \E p \in CachePorts(cache) :
          \E c \in DOMAIN tracked : tracked[c].port = p /\ tracked[c].removed

\* C4: a RemoveComplete for a port with no cache entry emits nothing, leaves
\* the cache unchanged, leaves the combinator Streaming, and the same call
\* goes on to poll the upstream for the next event.
C4_UntrackedRemovalIsDropped ==
    \A i \in DOMAIN Steps :
        LET st == Steps[i]
        IN  (st.item.kind = "RemoveComplete"
                /\ st.item.port \notin CachePorts(st.before)) =>
              /\ st.emit = NoEmit
              /\ st.after = st.before
              /\ st.tracking = "Streaming"
              /\ i < Len(Steps)

\* C4 witness: an untracked removal was followed, in the same call, by an
\* Arrival that emitted a TrackedPort.
C4_Witness ==
    /\ Len(Steps) = 2
    /\ Steps[1].item.kind = "RemoveComplete"
    /\ Steps[1].item.port \notin CachePorts(Steps[1].before)
    /\ Steps[2].emit.kind = "TrackedPort"

\* A matching Arrival for a port that already has a cache entry.
IsReArrival(st) ==
    /\ st.item.kind = "Arrival"
    /\ Matches(ids, st.item.meta)
    /\ st.item.port \in CachePorts(st.before)

\* The cache entry of the port was replaced by a fresh Sender and the old
\* Sender was dropped without being set.
Overwritten(st) ==
    /\ st.emit.kind = "TrackedPort"
    /\ st.emit.port = st.item.port
    /\ st.emit.chan \notin CacheSenders(st.before)
    /\ CacheGet(st.after, st.item.port) = {st.emit.chan}
    /\ Cardinality(st.after) = Cardinality(st.before)
    /\ \A e \in st.before : e.port # st.item.port => e \in st.after
    /\ \A old \in CacheGet(st.before, st.item.port) :
          tracked[old].sender = "dropped" /\ tracked[old].signal = "Unset"

\* C5 as stated: a matching Arrival for an already cached port emits a fresh
\* TrackedPort, replaces the entry (same number of entries), drops the old
\* Sender, and emits no error.
C5_ReArrivalOverwrites ==
    \A i \in DOMAIN Steps :
        IsReArrival(Steps[i]) => Overwritten(Steps[i])

\* C5 amended: the same when TrackedPort::track succeeds; when the oneshot
\* channel cannot be made the error is emitted and the cache, with the old
\* Sender, is left as it was.
C5_ReArrivalOverwritesIfTracked ==
    \A i \in DOMAIN Steps :
        LET st == Steps[i]
        IN  IsReArrival(st) =>
              /\ st.item.ok => Overwritten(st)
              /\ ~st.item.ok =>
                    /\ st.emit = EmitErr
                    /\ st.after = st.before
                    /\ \A old \in CacheGet(st.before, st.item.port) :
                          tracked[old].sender = "cached"

\* C5 witness: a cache entry was overwritten by a second Arrival.
C5_Witness ==
    \E i \in DOMAIN Steps :
        IsReArrival(Steps[i]) /\ Steps[i].item.ok /\ Overwritten(Steps[i])

(* ---------------------- claims on WindowEvents ------------------------ *)

\* C6: whenever close() has returned (Ok or an error), or the WindowEvents
\* was dropped, the dispatcher thread has terminated and was joined.
C6_CloseJoinsDispatcher ==
    (closeRet # "none" \/ cpc = "dropped") => (thread = "exited" /\ joined)

\* C7: no wake-up is lost: when poll_next has returned Pending and the queue
\* holds an item or the sentinel, the consumer's waker was invoked since that
\* poll began or the dispatcher is about to invoke it.
C7_NoLostWakeup ==
    (ProcessRunning /\ cpc = "idle" /\ parked # 0 /\ queue # <<>>) =>
        (parked \in woken \/ thread \in {"push", "wake"})

\* C8: the items yielded are a prefix of the items enqueued (nothing lost,
\* duplicated or reordered), and the translations of the OS broadcasts are
\* yielded in the order the OS sent the broadcasts.
C8_YieldedIsPrefixOfEnqueued ==
    /\ yielded \o queue = enqueued
    /\ \A i, j \in DOMAIN yielded :
          (i < j /\ yielded[i].n > 0 /\ yielded[j].n > 0) =>
              yielded[i].n < yielded[j].n

\* C8 witness: the consumer was handed a seeded Arrival and then the
\* translations of two broadcasts about one port.
C8_Witness ==
    \E i, j, k \in DOMAIN yielded :
        /\ i < j /\ j < k
        /\ yielded[i].origin = "seed"
        /\ yielded[j].n = 1 /\ yielded[k].n = 2
        /\ yielded[j].kind = "Arrival" /\ yielded[k].kind = "RemoveComplete"
        /\ yielded[j].port = yielded[k].port

\* C9: the stream yields exactly one Arrival per entry of the snapshot taken
\* by spawn, with that entry's port and metadata, and all of them before any
\* item the dispatcher thread enqueued.
C9_SnapshotSeedsFirst ==
    LET all == yielded \o queue
    IN  /\ \A i \in DOMAIN yielded :
              yielded[i].origin = "seed" <=> i <= Cardinality(snapshot)
        /\ \A e \in snapshot :
              Cardinality({ i \in DOMAIN all :
                              all[i] = QArrival(e.port, e.meta, "seed", 0) }) = 1
        /\ \A i \in DOMAIN all :
              all[i].origin = "seed" =>
                  /\ all[i].kind = "Arrival"
                  /\ [port |-> all[i].port, meta |-> all[i].meta] \in snapshot

\* C9 witness: both Arrivals of a snapshot of two ports were yielded, and then
\* an item of the dispatcher thread.
C9_Witness ==
    /\ Cardinality(snapshot) = 2
    /\ Len(yielded) >= 3
    /\ yielded[1].port # yielded[2].port
    /\ yielded[3].origin # "seed"

\* C10: once the sentinel was dequeued nothing more is yielded, and nothing
\* is ever enqueued after the sentinel.
C10_NothingAfterEndOfStream ==
    /\ \A i \in DOMAIN yielded :
          yielded[i].kind = "Sentinel" => i = Len(yielded)
    /\ \A i \in DOMAIN enqueued :
          enqueued[i].kind = "Sentinel" => i = Len(enqueued)

\* C10 witness: after the end of the stream was yielded, the stream was
\* polled again and returned Pending.
C10_Witness ==
    /\ yielded # <<>>
    /\ yielded[Len(yielded)].kind = "Sentinel"
    /\ cpc = "idle"
    /\ parked # 0

\* The close() calls that ran to jh.join(): the listener is torn down.
JoinedReturns == {"Ok", "ErrThread", "ErrJoin"}

\* C11: an explicit close() made after an explicit close() that returned Ok
\* returns Ok as well.
C11_SecondCloseSucceeds ==
    \A i, j \in DOMAIN closeLog :
        (i < j /\ ~closeLog[i].byDrop /\ ~closeLog[j].byDrop
               /\ closeLog[i].ret = "Ok") =>
            closeLog[j].ret = "Ok"

\* C12: a close() made on a listener that an earlier close() has torn down
\* (explicitly, or from drop) reports the "Already closed WindowEvents" error
\* and no other.
C12_ReCloseReportsAlreadyClosed ==
    \A i, j \in DOMAIN closeLog :
        (i < j /\ closeLog[i].ret \in JoinedReturns) =>
            closeLog[j].ret = "ErrAlreadyClosed"

\* C13: when the creation of the window or a registration has failed,
\* listen(name) has returned an error and not a WindowEvents.
C13_ListenFailsWithItsWindow ==
    tresult \in {"ErrCreate", "ErrRegister"} =>
        (SpawnReturn = "Err" /\ cpc = "dropped" /\ joinHandle = "None")

\* C14: once the message loop has ended on an error of GetMessageW, the last
\* item the dispatcher has enqueued is that error, not the end of the stream.
C14_LoopErrorIsEnqueued ==
    (tresult = "ErrGetMessage" /\ thread \in {"return", "exited", "crashed"}) =>
        (enqueued # <<>> /\ enqueued[Len(enqueued)].kind = "Err")

\* The positions in enqueued of the translation of broadcast k.
EnqueuedAt(k) == { i \in DOMAIN enqueued : enqueued[i].n = k }

\* Broadcast k is still on its way: waiting in the window's message queue, or
\* translated and about to be pushed.
InFlight(k) ==
    \/ \E i \in DOMAIN sent : sent[i].n = k
    \/ thread = "push" /\ \E i \in DOMAIN todo : todo[i].n = k

\* C15: an arrival broadcast whose lookup fails becomes one error item; the
\* dispatcher goes back to its loop with the window alive; and while the
\* listener runs, every port broadcast sent after it is enqueued, once, behind
\* that error item.
C15_LookupErrorDoesNotEndStream ==
    /\ (thread \in {"push", "wake"} /\ todo # <<>> /\ todo[1].kind = "Err") =>
          (Len(todo) = 1 /\ after = "loop" /\ window = "alive"
              /\ tresult = "running")
    /\ \A k \in DOMAIN broadcasts : Cardinality(EnqueuedAt(k)) <= 1
    /\ \A i \in DOMAIN enqueued :
          enqueued[i].kind = "Err" =>
              /\ broadcasts[enqueued[i].n].kind = "DBT_DEVICEARRIVAL"
              /\ \A k \in DOMAIN broadcasts :
                    (k > enqueued[i].n /\ broadcasts[k].devtype = "port"
                        /\ window = "alive" /\ ~InFlight(k)) =>
                        \E j \in EnqueuedAt(k) : j > i

\* C15 witness: the consumer was handed the error item of a failed lookup and
\* then the translation of a later broadcast.
C15_Witness ==
    \E i, j \in DOMAIN yielded :
        /\ i < j
        /\ yielded[i].kind = "Err"
        /\ yielded[j].kind \in {"Arrival", "RemoveComplete"}
        /\ yielded[j].n > yielded[i].n

(* -------------------- further claims on Tracking ----------------------- *)

\* C16: an error item of the upstream is emitted as the item of that very
\* call, the cache is left as it was and the combinator stays Streaming.
C16_UpstreamErrorIsForwarded ==
    lastPoll.op = "poll_next" =>
        \A i \in DOMAIN Steps :
            Steps[i].item.kind = "Err" =>
                /\ i = Len(Steps)
                /\ lastPoll.ret = "Ready"
                /\ Steps[i].emit = EmitErr
                /\ Steps[i].after = Steps[i].before
                /\ Steps[i].tracking = "Streaming"

\* C16 witness: a call forwarded an upstream error with a port in the cache,
\* and the combinator still streams with that cache.
C16_Witness ==
    /\ lastPoll.op = "poll_next"
    /\ Steps # <<>>
    /\ Steps[Len(Steps)].item.kind = "Err"
    /\ Steps[Len(Steps)].before # {}
    /\ tracking = "Streaming"
    /\ cache = Steps[Len(Steps)].before

\* C17: the end of the upstream is yielded as the end of the stream and
\* leaves the combinator Complete with the upstream and every cached Sender
\* dropped; in Complete a poll_next call panics and emits nothing.
C17_EndOfUpstreamCompletes ==
    /\ lastPoll.op = "poll_next" =>
          \A i \in DOMAIN Steps :
              Steps[i].item.kind = "End" =>
                  /\ i = Len(Steps)
                  /\ lastPoll.ret = "Ready"
                  /\ Steps[i].emit.kind = "End"
                  /\ Steps[i].after = {}
                  /\ Steps[i].tracking = "Complete"
    /\ tracking = "Complete" =>
          /\ cache = {}
          /\ inner = <<>>
          /\ \A c \in DOMAIN tracked : tracked[c].sender # "cached"
          /\ lastPoll.op = "poll_next" =>
                \/ lastPoll.ret = "Panic" /\ Steps = <<>>
                \/ Steps # <<>> /\ Steps[Len(Steps)].item.kind = "End"

\* C17 witness: a combinator that held a Sender was completed by the end of
\* its upstream and then polled again.
C17_Witness ==
    /\ tracking = "Complete"
    /\ lastPoll.op = "poll_next"
    /\ lastPoll.ret = "Panic"
    /\ \E c \in DOMAIN tracked : tracked[c].sender = "dropped"

\* C19: the Receiver of a oneshot channel resolves at most once, and only
\* when Sender::set was called and the helper wait on the signal has returned:
\* every poll made before that returned Pending.
C19_ReceiverResolvesOnlyAfterSet ==
    /\ \A c \in DOMAIN tracked :
          /\ tracked[c].resolved <= 1
          /\ tracked[c].resolved = 1 =>
                (tracked[c].sender = "used" /\ tracked[c].signal = "Signaled")
          /\ tracked[c].signal # "Unset" => tracked[c].sender = "used"
    /\ (lastPoll.op = "poll" /\ lastPoll.ret = "Ready") =>
          tracked[lastPoll.chan].signal = "Signaled"

\* C19 witness: a Receiver was polled to Ready after set() and the helper wait.
C19_Witness ==
    /\ lastPoll.op = "poll"
    /\ lastPoll.ret = "Ready"
    /\ tracked[lastPoll.chan].resolved = 1
    /\ tracked[lastPoll.chan].sender = "used"

(* ------------------------- claims on rescan --------------------------- *)

\* C20: a rescan(name) that finds no window of that name returns an error, and
\* as long as no rescan has returned Ok no WM_USER is posted and no rescan
\* Arrival is enqueued or about to be.
C20_RescanWithoutListenerFails ==
    /\ \A i \in DOMAIN rescanLog :
          rescanLog[i].window # "alive" => rescanLog[i].ret = "ErrFind"
    /\ (\A i \in DOMAIN rescanLog : rescanLog[i].ret # "Ok") =>
          /\ \A i \in DOMAIN posted : posted[i] # "WM_USER"
          /\ \A i \in DOMAIN enqueued : enqueued[i].origin # "rescan"
          /\ \A i \in DOMAIN todo : todo[i].origin # "rescan"

\* C20 witness: rescan was called before the listener had its window and
\* failed; the listener then ran and handed over the translation of a
\* broadcast.
C20_Witness ==
    /\ rescanLog # <<>>
    /\ rescanLog[1].window = "none"
    /\ rescanLog[1].ret = "ErrFind"
    /\ \E i \in DOMAIN yielded : yielded[i].n > 0

(* ---------------------- claims on EventListener ----------------------- *)

\* The future the k-th start()/restart() call returned (the call succeeded).
WaitOf(k) == futs[startLog[k].waits]

Block(e) == (e.at + 1) .. (e.at + Cardinality(e.found))

\* The rescan requests the dispatcher has handled.
HandledRescans == { k \in DOMAIN scanLog : scanLog[k].by = "rescan" }

\* The window procedure is enqueuing the items of a message.
Enqueuing == thread \in {"push", "wake"}

\* C21: a rescan request handled by the dispatcher whose scan succeeds
\* enqueues, right behind everything enqueued before it and with nothing in
\* between, exactly one Arrival per entry of the Directory as scanned, and no
\* RemoveComplete and no sentinel; nothing else is ever enqueued for a rescan.
C21_RescanEnqueuesSnapshot ==
    /\ \A k \in HandledRescans :
          LET e == scanLog[k]
              got == Block(e) \cap DOMAIN enqueued
          IN  /\ \A i \in got :
                    /\ enqueued[i].kind = "Arrival"
                    /\ enqueued[i].origin = "rescan"
                    /\ [port |-> enqueued[i].port,
                        meta |-> enqueued[i].meta] \in e.found
                    /\ \A j \in got :
                          enqueued[i].port = enqueued[j].port => i = j
              /\ ~Enqueuing => got = Block(e)
              /\ e.ok => e.found \in Directories
    /\ \A i \in DOMAIN enqueued :
          enqueued[i].origin = "rescan"
             => \E k \in HandledRescans : i \in Block(scanLog[k])

\* A rescan of a Directory of two ports was handled after a live event had
\* been enqueued: its two Arrivals are the last two items of the queue's
\* history and the dispatcher is back in its loop.
C21_Witness ==
    \E k \in HandledRescans :
        /\ scanLog[k].ok
        /\ Cardinality(scanLog[k].found) = 2
        /\ Len(enqueued) = scanLog[k].at + 2
        /\ \E i \in 1..scanLog[k].at : enqueued[i].origin = "live"
        /\ thread = "loop"

\* C22: every Directory scan of the listener that failed (at spawn, for a
\* rescan request, for an arrival) has put an error item on the queue, as the
\* first item enqueued after it.
C22_ScanFailureIsSurfaced ==
    \A k \in DOMAIN scanLog :
        (~scanLog[k].ok /\ ~Enqueuing) =>
            /\ Len(enqueued) > scanLog[k].at
            /\ enqueued[scanLog[k].at + 1].kind = "Err"

(* ------------------- claims on Sender::set failures ------------------- *)

\* C23: a RemoveComplete for a cached port whose Sender::set fails ends the
\* call with that failure as an error item, with the port's entry gone from
\* the cache, the other entries kept and the combinator Streaming.
C23_SetFailureIsEmitted ==
    \A i \in DOMAIN Steps :
        LET st == Steps[i]
        IN  (st.item.kind = "RemoveComplete"
                /\ st.item.port \in CachePorts(st.before)
                /\ ~st.item.ok) =>
              /\ i = Len(Steps)
              /\ lastPoll.ret = "Ready"
              /\ st.emit = EmitErr
              /\ st.item.port \notin CachePorts(st.after)
              /\ st.after = CacheRemove(st.before, st.item.port)
              /\ st.tracking = "Streaming"

\* Sender::set failed for a port of the cache: the error was emitted, the
\* entry is gone, the combinator still streams, and the Receiver is waiting.
C23_Witness ==
    /\ lastPoll.op = "poll_next"
    /\ Steps # <<>>
    /\ LET st == Steps[Len(Steps)]
       IN  /\ st.item.kind = "RemoveComplete"
           /\ st.item.port \in CachePorts(st.before)
           /\ ~st.item.ok
           /\ st.emit = EmitErr
    /\ tracking = "Streaming"
    /\ cache = Steps[Len(Steps)].after

(* --------------------- claims on the task queue ----------------------- *)

\* a is the beginning of b.
IsPrefix(a, b) ==
    /\ Len(a) <= Len(b)
    /\ \A i \in DOMAIN a : a[i] = b[i]

\* The polls of the log that returned Ready, in call order.
ReadyPolls == SelectSeq(readLog, LAMBDA e : e.ret = "Ready")

\* The items TaskStream::poll_next has yielded so far.
StreamYields == [i \in DOMAIN ReadyPolls |-> ReadyPolls[i].item]

\* C24: TaskStream::poll_next is Pending exactly when the task queue is
\* empty, and what it yields otherwise is, in push order and with nothing
\* left out, what the thread side pushed: every item pushed before a
\* ThreadQueue was dropped is yielded before that drop's None.
C24_StreamYieldsInPushOrder ==
    front = "stream" =>
        /\ \A i \in DOMAIN readLog :
              (readLog[i].ret = "Pending") <=> readLog[i].empty
        /\ IsPrefix(StreamYields, taskPushed)

\* The concatenation of a sequence of byte sequences.
RECURSIVE Concat(_)
Concat(ss) == IF ss = <<>> THEN <<>> ELSE Head(ss) \o Concat(Tail(ss))

\* The bytes poll_read has handed to its caller: buf[..n] of every Ok(n).
Delivered ==
    Concat([i \in DOMAIN readLog |->
               IF readLog[i].ret = "Ok" THEN readLog[i].copied ELSE <<>>])

\* The bytes the thread side pushed with push_ok, in push order.
PushedBytes == Concat([i \in DOMAIN taskPushed |-> taskPushed[i].bytes])

\* C28: while no ThreadQueue has been dropped, the bytes Reader::poll_read
\* has handed to its caller are, in order and each once, the first bytes
\* pushed with push_ok, whatever the chunk and buffer lengths and whichever
\* calls returned Pending; no call reports more bytes than its buffer holds.
C28_ReaderDeliversEveryByte ==
    (front = "reader" /\ Dropped = 0) =>
        /\ IsPrefix(Delivered, PushedBytes)
        /\ \A i \in DOMAIN readLog : readLog[i].n <= readLog[i].size

\* The elements of a sequence.
Elems(seq) == {seq[i] : i \in DOMAIN seq}

\* The push a byte came with: bytes are numbered, each pushed once.
ItemOf(b) == CHOOSE k \in DOMAIN taskPushed : b \in Elems(taskPushed[k].bytes)

\* The error items a poll_read came upon: the one it began with in current,
\* or the one it popped.
ErrorsMet(e) ==
    IF e.was.current.kind = "Err"
    THEN {e.was.current}
    ELSE {x \in Elems(e.polls) : x.kind = "Err"}

\* C29: a poll_read that comes upon an error item after it copied bytes
\* returns Ok with those bytes and keeps the error in current; a poll_read
\* that begins with an error in current, or pops one before it copied
\* anything, returns that error, copies nothing and leaves current empty; an
\* error is returned by one poll_read only, every byte copied by an earlier
\* call was pushed before the error and every byte copied by a later call
\* was pushed after it.
C29_ErrorReportedOnceInPlace ==
    front = "reader" =>
        \A i \in DOMAIN readLog :
            LET e == readLog[i]
            IN  /\ \A x \in ErrorsMet(e) :
                      IF e.copied # <<>>
                      THEN /\ e.ret = "Ok"
                           /\ e.n = Len(e.copied)
                           /\ e.now.current = x
                      ELSE /\ e.ret = "Err"
                           /\ e.item = x
                           /\ e.now.current = NoItem
                /\ e.was.current.kind = "Err" => e.polls = <<>>
                /\ e.ret = "Err" =>
                      /\ e.item.kind = "Err"
                      /\ e.item \in Elems(taskPushed)
                      /\ e.item \in ErrorsMet(e)
                      /\ e.copied = <<>>
                      /\ \A j \in DOMAIN readLog :
                            /\ (j # i /\ readLog[j].ret = "Err") =>
                                  readLog[j].item # e.item
                            /\ \A b \in Elems(readLog[j].copied) :
                                  IF j < i THEN ItemOf(b) < e.item.k
                                  ELSE ItemOf(b) > e.item.k

\* A poll_read returned bytes and kept an error, the next returned the error
\* and the one after it returned bytes pushed after the error.
C29_Witness ==
    /\ front = "reader"
    /\ \E i \in DOMAIN readLog :
          /\ i + 2 \in DOMAIN readLog
          /\ readLog[i].ret = "Ok"
          /\ readLog[i].n > 0
          /\ readLog[i].now.current.kind = "Err"
          /\ readLog[i + 1].ret = "Err"
          /\ readLog[i + 1].item = readLog[i].now.current
          /\ readLog[i + 2].ret = "Ok"
          /\ readLog[i + 2].n > 0

\* The last element of a non-empty sequence.
Last(seq) == seq[Len(seq)]

\* The poll_read popped the None of a dropped ThreadQueue.
PoppedEnd(e) == e.polls # <<>> /\ Last(e.polls).kind = "None"

\* C30: the poll_read that pops the None of a dropped ThreadQueue returns Ok
\* with the bytes it had copied, Ok(0) when all data was read before, and
\* leaves the Reader Complete; a poll_read of a Complete Reader returns
\* Ok(0), copies nothing, does not poll the queue and leaves the Reader
\* Complete; once every ThreadQueue is dropped and the queue is drained the
\* Reader is Complete.
C30_EndOfFileIsFused ==
    front = "reader" =>
        /\ \A i \in DOMAIN readLog :
              LET e == readLog[i]
              IN  /\ PoppedEnd(e) =>
                        /\ e.ret = "Ok"
                        /\ e.n = Len(e.copied)
                        /\ e.now.state = "Complete"
                  /\ e.was.state = "Complete" =>
                        /\ e.ret = "Ok"
                        /\ e.n = 0
                        /\ e.copied = <<>>
                        /\ e.polls = <<>>
                        /\ e.now.state = "Complete"
                  /\ e.now.state = "Complete" =>
                        (PoppedEnd(e) \/ e.was.state = "Complete")
        /\ (handles = 0 /\ taskQ = <<>>) => reader.state = "Complete"

\* Every ThreadQueue is dropped; a poll_read that had nothing left to copy
\* popped None and returned Ok(0), and the next poll_read returned Ok(0)
\* while an item was still waiting in the queue.
C30_Witness ==
    /\ front = "reader"
    /\ handles = 0
    /\ taskQ # <<>>
    /\ \E i \in DOMAIN readLog :
          /\ i + 1 \in DOMAIN readLog
          /\ PoppedEnd(readLog[i])
          /\ readLog[i].ret = "Ok"
          /\ readLog[i].n = 0
          /\ readLog[i + 1].was.state = "Complete"
          /\ readLog[i + 1].ret = "Ok"
          /\ readLog[i + 1].n = 0

(* -------------------- claims on the thread queue ---------------------- *)

\* C25: with buffers sent by TaskQueue::push only and the close marker by
\* the drop of the TaskQueue, ThreadQueue::pop returns None exactly when the
\* queue is empty, and what the thread side has taken is, in push order and
\* with nothing left out, what was pushed: every buffer pushed before the
\* drop is handed out before the drop's marker.
C25_PopReturnsPushesInOrder ==
    (\A x \in Elems(threadPushed) : x.by \in {"push", "drop"}) =>
        /\ \A e \in Elems(popLog) :
              e.op = "pop" => ((e.ret = "None") <=> e.empty)
        /\ IsPrefix(threadTaken, threadPushed)

\* C26: as long as no close marker has been sent, Writer::poll_flush returns
\* Pending exactly when a written buffer is still in the thread queue, and
\* Ready exactly when the thread side has taken, by pop or by collect, every
\* buffer written so far.
C26_FlushReadyIffConsumed ==
    \A f \in Elems(flushLog) :
        ~f.closed =>
            /\ f.ret \in {"Pending", "Ready"}
            /\ (f.ret = "Pending") <=> f.queued
            /\ (f.ret = "Ready") <=> f.consumed

\* poll_flush returned Ready after the thread side had taken every buffer
\* written, at least one, and no close marker had been sent.
C26_Witness ==
    \E f \in Elems(flushLog) :
        /\ f.ret = "Ready"
        /\ f.some
        /\ f.consumed
        /\ ~f.closed

\* The items of a queue up to and with its first close marker, all of them
\* if it holds none.
RECURSIVE UpToMarker(_)
UpToMarker(q) ==
    IF q = <<>> THEN <<>>
    ELSE IF Head(q).kind = "None" THEN <<Head(q)>>
    ELSE <<Head(q)>> \o UpToMarker(Tail(q))

\* What a call took out of the queue.
Took(c) == SubSeq(threadTaken, c.from + 1, c.to)

\* C27: ThreadQueue::collect returns the concatenation, in queue order, of
\* the data buffers it took; it takes no item behind a close marker; done is
\* true exactly when the last item it took is a close marker, and without
\* one it returns on an empty queue.  When nothing is sent to the queue
\* during the call, it takes exactly the items queued up to and with the
\* first close marker (all of them if there is none) and leaves the rest.
C27_CollectReturnsDataBeforeMarker ==
    \A c \in Elems(popLog) :
        c.op = "collect" =>
            /\ c.bytes = Concat([i \in DOMAIN Took(c) |-> Took(c)[i].bytes])
            /\ \A i \in DOMAIN Took(c) :
                  Took(c)[i].kind = "None" => i = Len(Took(c))
            /\ c.done <=> (Took(c) # <<>> /\ Last(Took(c)).kind = "None")
            /\ ~c.done => (c.empty /\ c.left = <<>>)
            /\ c.upto = c.sent =>
                  /\ Took(c) = UpToMarker(c.q0)
                  /\ c.q0 = Took(c) \o c.left

\* A collect returned the bytes of two buffers and done.
C27_Witness ==
    \E c \in Elems(popLog) :
        /\ c.op = "collect"
        /\ c.done
        /\ Len(Took(c)) = 3
        /\ c.bytes = Took(c)[1].bytes \o Took(c)[2].bytes

(* ------------------------------ C33 ---------------------------------- *)

\* The capital letters of a hexadecimal id, each with its small letter.
CasePairs ==
    { <<"A", "a">>, <<"B", "b">>, <<"C", "c">>, <<"D", "d">>, <<"E", "e">>,
      <<"F", "f">> }

\* Two strings that differ at most in the case of their letters.
EqualIgnoringCase(s, t) ==
    /\ Len(s) = Len(t)
    /\ \A i \in DOMAIN s :
          \/ s[i] = t[i]
          \/ <<s[i], t[i]>> \in CasePairs
          \/ <<t[i], s[i]>> \in CasePairs

HasCapital(s) ==
    \E i \in DOMAIN s : \E pair \in CasePairs : s[i] = pair[1]

\* Two lists given to track() that differ only in the case of their letters.
SameListIgnoringCase(a, b) ==
    /\ Len(a) = Len(b)
    /\ \A j \in DOMAIN a :
          /\ EqualIgnoringCase(a[j].vendor, b[j].vendor)
          /\ EqualIgnoringCase(a[j].product, b[j].product)

\* An Arrival the combinator accepted: it went on to make the TrackedPort
\* (the item emitted is the TrackedPort, or the error of making it).
Accepted(st) ==
    st.emit.kind \in {"TrackedPort", "Err"}

\* C33: track() lower-cases every vendor/product pair of the list it is
\* given, so two lists that differ only in the case of their letters give the
\* same allow-list and accept the same Arrivals; an Arrival is accepted
\* exactly when its metadata equals, character for character, the lower-cased
\* form of some pair of the list.
C33_TrackLowerCasesTheAllowList ==
    /\ SameListIgnoringCase(ids, given)
    /\ \A j \in DOMAIN ids :
          ~HasCapital(ids[j].vendor) /\ ~HasCapital(ids[j].product)
    /\ \A other \in AllowLists :
          SameListIgnoringCase(other, given) => Track(other) = ids
    /\ \A i \in DOMAIN Steps :
          LET st == Steps[i]
          IN  st.item.kind = "Arrival" =>
                (Accepted(st) <=>
                    \E j \in DOMAIN given :
                        /\ EqualIgnoringCase(given[j].vendor,
                                             st.item.meta.vendor)
                        /\ EqualIgnoringCase(given[j].product,
                                             st.item.meta.product)
                        /\ ~HasCapital(st.item.meta.vendor)
                        /\ ~HasCapital(st.item.meta.product))

\* C33 witness: the list of examples/track.rs, ("2FE3", "0100"); one call
\* dropped the Arrival of a device reporting "2FE3" and then emitted the
\* TrackedPort of the device reporting "2fe3".
C33_Witness ==
    /\ Len(given) = 1
    /\ given[1].vendor = <<"2", "F", "E", "3">>
    /\ Len(Steps) = 2
    /\ Steps[1].item.kind = "Arrival"
    /\ Steps[1].item.meta.vendor = <<"2", "F", "E", "3">>
    /\ Steps[1].emit = NoEmit
    /\ Steps[2].item.kind = "Arrival"
    /\ Steps[2].item.meta.vendor = <<"2", "f", "e", "3">>
    /\ Steps[2].emit.kind = "TrackedPort"
    /\ Steps[2].emit.ids.vendor = <<"2", "f", "e", "3">>

(* ------------------------------ C34 ---------------------------------- *)

\* The channels made for a port so far.
ChannelsOf(chans, port) ==
    { c \in DOMAIN chans : chans[c].port = port }

\* C34 as stated: processing RemoveComplete(p) calls set() on at most one
\* Sender, and that Sender was made by the most recent matching Arrival(p):
\* no matching Arrival(p) was processed after the channel was made.
C34_SetsSenderOfLatestArrival ==
    \A i \in DOMAIN Steps :
        LET st == Steps[i]
        IN  st.item.kind = "RemoveComplete" =>
              /\ Cardinality(st.set) <= 1
              /\ \A c \in st.set :
                    /\ st.chans[c].port = st.item.port
                    /\ ~st.chans[c].rearrived

\* C34 (amended): processing RemoveComplete(p) calls set() on at most one
\* Sender, the one made by the most recent matching Arrival(p) whose
\* TrackedPort was made; that Sender was still cached, so the Sender of an
\* overwritten entry is never set, and a RemoveComplete(p) with no such
\* Arrival(p) since the last RemoveComplete(p) sets nothing.  No other item
\* makes the combinator call set().
C34_SetsLatestMadeSenderOnly ==
    \A i \in DOMAIN Steps :
        LET st == Steps[i]
            made == ChannelsOf(st.chans, st.item.port)
        IN  /\ st.item.kind # "RemoveComplete" => st.set = {}
            /\ st.item.kind = "RemoveComplete" =>
                  /\ Cardinality(st.set) <= 1
                  /\ \A c \in st.set :
                        /\ c \in made
                        /\ \A d \in made : d <= c
                        /\ st.chans[c].sender = "cached"
                        /\ ~st.chans[c].removed
                  /\ (\A c \in made : st.chans[c].removed) => st.set = {}

\* C34 witness: port p arrived twice and was then removed; the
\* RemoveComplete set the second Sender, the first one was dropped unset.
C34_Witness ==
    /\ Len(Steps) >= 1
    /\ Steps[1].item.kind = "RemoveComplete"
    /\ Steps[1].set = {2}
    /\ Steps[1].chans[1].port = Steps[1].item.port
    /\ Steps[1].chans[1].sender = "dropped"
    /\ tracked[1].sender = "dropped"
    /\ tracked[2].sender = "used"

(* ------------------------------ C35 ---------------------------------- *)

\* The turns of the loop that emitted an item or the end of the stream.
Emitting(steps) ==
    { i \in DOMAIN steps : steps[i].emit # NoEmit }

\* C35: a call of poll_next returns Pending only when the upstream poll made
\* in that call returned Pending, and that is the last thing the call did;
\* an item that emits nothing is consumed and the upstream is polled again
\* in the same call; a call emits at most one item, in its last turn.
C35_PendingOnlyFromUpstream ==
    lastPoll.op = "poll_next" /\ lastPoll.ret # "Panic" =>
        /\ Len(Steps) >= 1
        /\ lastPoll.ret = "Pending" <=> Steps[Len(Steps)].item.kind = "Pending"
        /\ \A i \in DOMAIN Steps :
              /\ Steps[i].item.kind = "Pending" => i = Len(Steps)
              /\ (/\ Steps[i].item.kind \in {"Arrival", "RemoveComplete"}
                  /\ Steps[i].emit = NoEmit) => i < Len(Steps)
        /\ Emitting(Steps) \subseteq {Len(Steps)}
        /\ lastPoll.ret = "Pending" => Emitting(Steps) = {}
        /\ lastPoll.ret = "Ready" => Emitting(Steps) = {Len(Steps)}

\* C35 witness: one call consumed a non-matching Arrival and the
\* RemoveComplete of an untracked port, polled the upstream a third time and
\* returned its Pending.
C35_Witness ==
    /\ lastPoll.ret = "Pending"
    /\ Len(Steps) = 3
    /\ Steps[1].item.kind = "Arrival"
    /\ Steps[1].emit = NoEmit
    /\ Steps[2].item.kind = "RemoveComplete"
    /\ Steps[2].emit = NoEmit
    /\ Steps[3].item.kind = "Pending"

(* ------------------------------ C36 ---------------------------------- *)

\* The cache entries of the ports other than one port.
OtherEntries(c, port) ==
    { e \in c : e.port # port }

\* C36: a turn of the loop that processes an Arrival or a RemoveComplete of
\* port p leaves the cache entries of every other port as they were, and no
\* step of the combinator changes its allow-list.
C36_OtherPortsAndAllowListUntouched ==
    [][/\ ids' = ids
       /\ \A i \in DOMAIN lastPoll'.steps :
             LET st == lastPoll'.steps[i]
             IN  st.item.kind \in {"Arrival", "RemoveComplete"} =>
                   OtherEntries(st.after, st.item.port)
                       = OtherEntries(st.before, st.item.port)]_vars

\* C36 witness: both ports were tracked and the RemoveComplete of one of
\* them was processed; its entry is gone, the other port's entry is still
\* in the cache.
C36_Witness ==
    /\ Len(Steps) >= 1
    /\ Steps[1].item.kind = "RemoveComplete"
    /\ CachePorts(Steps[1].before) = Ports
    /\ CachePorts(Steps[1].after) = Ports \ {Steps[1].item.port}
    /\ CachePorts(cache) = Ports \ {Steps[1].item.port}

(* ------------------------------ C37 ---------------------------------- *)

\* The dispatcher thread is gone: its function returned or it panicked.
Terminated ==
    thread = "exited"

\* C37: whenever the dispatcher thread has terminated, for whatever reason,
\* the end-of-stream sentinel or an error item was enqueued for the
\* consumer.
C37_TerminatedThreadLeftSentinelOrError ==
    Terminated =>
        \E i \in DOMAIN enqueued : enqueued[i].kind \in {"Sentinel", "Err"}

(* ------------------------------ C38 ---------------------------------- *)

\* The references to the SharedQueue spawn hands to the dispatcher thread:
\* Arc::into_raw(theirs).
HandedToThread == 1

\* The references the dispatcher thread has given back so far.  The WM_DESTROY
\* handler rebuilds the Arc<SharedQueue> from the window's pointer and drops
\* it when it returns, after the sentinel was pushed; nothing else in the
\* thread releases a reference to the queue.
ReleasedByThread ==
    IF window = "destroyed" /\ todo = <<>> THEN 1 ELSE 0

\* C38: over its whole lifetime the dispatcher thread releases exactly the
\* one reference spawn handed to it, and its exit releases nothing else: the
\* drop of its arc does not touch memory it does not own.
C38_DispatcherReleasesItsOneReference ==
    /\ thread # "crashed"
    /\ Terminated => ReleasedByThread = HandedToThread

(* ------------------------------ C32 ---------------------------------- *)

\* The places of the sentinel in a sequence of items.
SentinelsIn(items) ==
    { i \in DOMAIN items : items[i].kind = "Sentinel" }

\* The dispatcher took WM_CLOSE out of the message queue of its window (only
\* that makes its result Ok).
CloseHandled ==
    tresult = "Ok"

\* C32: once the dispatcher of a created window has handled the close
\* request it has enqueued exactly one sentinel, which is the last item ever
\* enqueued; and when a close() has returned Ok the sentinel was enqueued,
\* and is still in the queue unless the consumer has dequeued it.
C32_CloseEnqueuesOneFinalSentinel ==
    /\ CloseHandled =>
          /\ window = "destroyed"
          /\ SentinelsIn(enqueued) \subseteq {Len(enqueued)}
          /\ thread # "push" => SentinelsIn(enqueued) = {Len(enqueued)}
    /\ \A k \in DOMAIN closeLog :
          closeLog[k].ret = "Ok" =>
              /\ CloseHandled
              /\ SentinelsIn(enqueued) = {Len(enqueued)}
              /\ SentinelsIn(queue) # {} \/ SentinelsIn(yielded) # {}

\* C32 witness: a close() returned Ok after the dispatcher had enqueued an
\* event of its own; the sentinel is behind that event, in the queue.
C32_Witness ==
    /\ closeLog # <<>>
    /\ closeLog[1].ret = "Ok"
    /\ Len(enqueued) >= 2
    /\ enqueued[Len(enqueued) - 1].origin = "live"
    /\ SentinelsIn(enqueued) = {Len(enqueued)}
    /\ SentinelsIn(queue) = {Len(queue)}

(* --------------- the window class of the process (wm.rs) -------------- *)

\* Number of listeners the process starts (listen / Registry::spawn calls).
MaxListeners == 3

\* The state of the cell a use of WINDOW_CLASS_ATOM names.  The item is a
\* const: every use is a new OnceCell::new(), which holds nothing.
FreshCell == "empty"

\* One RegisterClassExW call: the dispatcher that made it and whether an
\* atom was returned.
Registration(by, ok) ==
    [by |-> by, ok |-> ok]

\* What RegisterClassExW can return: 0 when the class name is already
\* registered for the module, an atom or 0 (another failure) otherwise.
RegisterOutcomes(registered) ==
    IF registered THEN {FALSE} ELSE {TRUE, FALSE}

\* The dispatchers that have been started.
Dispatchers == DOMAIN windowClass.threads

At(t, pc) ==
    [windowClass EXCEPT !.threads[t] = pc]

\* listen -> Registry::spawn: std::thread::spawn of one more dispatcher.
SpawnDispatcher ==
    /\ Len(windowClass.threads) < MaxListeners
    /\ windowClass' =
          [windowClass EXCEPT !.threads = Append(@, "start")]
    /\ UNCHANGED <<trackingVars, windowVars, eventVars, channelVars>>

\* get_window_class: WINDOW_CLASS_ATOM.get_or_init(..) on the cell of this
\* use; the closure runs when the cell is empty.
GetOrInit ==
    /\ \E t \in Dispatchers :
          /\ windowClass.threads[t] = "start"
          /\ windowClass' =
                At(t, IF FreshCell = "empty" THEN "init" ELSE "create")
    /\ UNCHANGED <<trackingVars, windowVars, eventVars, channelVars>>

\* The closure of get_or_init: RegisterClassExW, panic! when it returns 0.
RegisterClass ==
    /\ \E t \in Dispatchers :
          /\ windowClass.threads[t] = "init"
          /\ \E ok \in RegisterOutcomes(windowClass.registered) :
                windowClass' =
                    [windowClass EXCEPT
                        !.registered = @ \/ ok,
                        !.calls = Append(@, Registration(t, ok)),
                        !.threads[t] = IF ok THEN "create" ELSE "panicked"]
    /\ UNCHANGED <<trackingVars, windowVars, eventVars, channelVars>>

\* create_device_notification_window with the class name: the dispatcher
\* goes on to its message loop, or returns the error of CreateWindowExW.
CreateWindow ==
    /\ \E t \in Dispatchers :
          /\ windowClass.threads[t] = "create"
          /\ \E ok \in BOOLEAN :
                windowClass' = At(t, IF ok THEN "loop" ELSE "exited")
    /\ UNCHANGED <<trackingVars, windowVars, eventVars, channelVars>>

\* The message loop ends (WM_CLOSE, GetMessageW error): the window is
\* destroyed, the class stays registered.
DispatcherExit ==
    /\ \E t \in Dispatchers :
          /\ windowClass.threads[t] = "loop"
          /\ windowClass' = At(t, "exited")
    /\ UNCHANGED <<trackingVars, windowVars, eventVars, channelVars>>

InitClass ==
    /\ NoTracking
    /\ NoListener
    /\ NoEvent
    /\ NoChannel
    /\ windowClass = [registered |-> FALSE, calls |-> <<>>, threads |-> <<>>]

NextClass ==
    \/ SpawnDispatcher
    \/ GetOrInit
    \/ RegisterClass
    \/ CreateWindow
    \/ DispatcherExit

SpecClass == InitClass /\ [][NextClass]_vars

(* ------------------------------ C31 ---------------------------------- *)

\* C31: the window class is registered at most once per process, however
\* many listeners are started and however their dispatchers interleave: a
\* second listener does not call RegisterClassExW again.
C31_ClassRegisteredAtMostOnce ==
    Len(windowClass.calls) <= 1

(* ------------------------------ C39 ---------------------------------- *)

\* C39: a step that sends the close marker to the thread queue
\* (Writer::poll_close, the drop of the TaskQueue) appends the marker and
\* discards no buffer that is queued and not yet taken, also when the queue
\* is at capacity.
C39_CloseKeepsQueuedData ==
    [][Len(threadPushed') > Len(threadPushed)
          /\ threadPushed'[Len(threadPushed')].kind = "None"
       => /\ threadQ' # <<>>
          /\ threadQ'[Len(threadQ')] = threadPushed'[Len(threadPushed')]
          /\ \A i \in DOMAIN threadQ :
                threadQ[i].kind = "Some" => threadQ[i] \in Elems(threadQ')]_vars

(* -------- channel.rs: push_ok and poll_next, statement by statement ---- *)

\* ThreadQueue::push_ok / push_err, first statement: self.0.task.push(item).
\* A refused item is handed back at once; otherwise the call goes on to the
\* read waker.
PushItem ==
    /\ handles > 0
    /\ pushes < MaxPushes
    /\ inCall.thread = "idle"
    /\ \E item \in { TOk(Fresh(nextByte, len), Len(taskPushed) + 1) :
                        len \in 1..MaxChunk }
                     \cup { TErr(Len(taskPushed) + 1) } :
          LET r == ArrayPush(taskQ, item)
          IN  /\ taskQ' = r.q
              /\ taskPushed' =
                    IF r.ok THEN Append(taskPushed, item) ELSE taskPushed
              /\ nextByte' =
                    IF r.ok THEN nextByte + Len(item.bytes) ELSE nextByte
              /\ inCall' =
                    [inCall EXCEPT !.thread = IF r.ok THEN "wake" ELSE "idle"]
    /\ pushes' = pushes + 1
    /\ UNCHANGED <<readWaker, readWoken, handles, front, reader, readLog>>
    /\ UNCHANGED <<threadSideVars, trackingVars, windowVars, eventVars,
                   classVars>>

\* push_ok / push_err, second statement: self.0.read_waker.lock().as_ref(),
\* None => Ok(()), Some(waker) => waker.wake_by_ref().
PushWake ==
    /\ inCall.thread = "wake"
    /\ readWoken' = (readWoken \/ readWaker # 0)
    /\ inCall' = [inCall EXCEPT !.thread = "idle"]
    /\ UNCHANGED <<taskQ, readWaker, handles, front, reader, pushes, nextByte,
                   taskPushed, readLog>>
    /\ UNCHANGED <<threadSideVars, trackingVars, windowVars, eventVars,
                   classVars>>

\* TaskStream::poll_next, first statement: self.0.task.pop().  Some(item) is
\* returned at once; on None the call goes on to store the waker.  A wake
\* that comes from here on is one the executor answers with another poll.
PollNextPop ==
    /\ front = "stream"
    /\ Len(readLog) < MaxReads
    /\ inCall.task = "idle"
    /\ readWoken' = FALSE
    /\ LET r == TaskStreamPollNext(taskQ)
       IN  /\ taskQ' = r.q
           /\ IF r.park
              THEN /\ inCall' = [inCall EXCEPT !.task = "store"]
                   /\ UNCHANGED readLog
              ELSE /\ readLog' = Append(readLog,
                                        Polled("poll_next", 0, r.ret, r.item,
                                               <<>>, <<r.item>>, reader,
                                               reader))
                   /\ UNCHANGED inCall
    /\ UNCHANGED <<readWaker, handles, front, reader, pushes, nextByte,
                   taskPushed>>
    /\ UNCHANGED <<threadSideVars, trackingVars, windowVars, eventVars,
                   classVars>>

\* TaskStream::poll_next, the None arm: the waker is stored under the lock
\* of read_waker and the call returns Poll::Pending.
PollNextStore ==
    /\ inCall.task = "store"
    /\ readWaker' = KeepWaker(readWaker)
    /\ readLog' = Append(readLog,
                         Polled("poll_next", 0, "Pending", NoItem, <<>>,
                                <<NoItem>>, reader, reader))
    /\ inCall' = [inCall EXCEPT !.task = "idle"]
    /\ UNCHANGED <<taskQ, readWoken, handles, front, reader, pushes, nextByte,
                   taskPushed>>
    /\ UNCHANGED <<threadSideVars, trackingVars, windowVars, eventVars,
                   classVars>>

InitWake ==
    /\ NoTracking
    /\ NoListener
    /\ NoEvent
    /\ NoThreadSide
    /\ NoClass
    /\ inCall = NotInCall
    /\ taskQ = <<>> /\ readWaker = 0 /\ readWoken = FALSE /\ handles = 1
    /\ front = "stream"
    /\ reader = [state |-> "Incomplete", current |-> NoItem]
    /\ pushes = 0 /\ nextByte = 0 /\ taskPushed = <<>> /\ readLog = <<>>

NextWake ==
    \/ PushItem
    \/ PushWake
    \/ PollNextPop
    \/ PollNextStore

SpecWake == InitWake /\ [][NextWake]_vars

(* ------------------------------ C40 ---------------------------------- *)

\* The task is parked: its latest poll_next returned Pending and it is not
\* inside another poll.
TaskParked ==
    /\ inCall.task = "idle"
    /\ readLog # <<>>
    /\ readLog[Len(readLog)].ret = "Pending"

\* A wake of the task is outstanding: its waker was woken since its latest
\* poll began, or a push that took an item into the queue has yet to look at
\* the read waker.
WakeOutstanding ==
    readWoken \/ inCall.thread = "wake"

\* C40: in every interleaving of the statements of push_ok / push_err and
\* poll_next there is no state in which the task is parked, the queue it
\* waits for holds an item, and no wake of the task is outstanding.
C40_NoLostWakeUp ==
    ~(TaskParked /\ taskQ # <<>> /\ ~WakeOutstanding)

====
